---- MODULE Spec2Model ----
(***************************************************************************)
(* A model of Gem-rs, a client SDK for a generative-language HTTP API:     *)
(*   src/src/api.rs     the model identifiers (Models, Models::to_string)  *)
(*   src/src/types.rs   the wire types, their (de)serialization, Context,  *)
(*                      Settings, File::upload and FileManager             *)
(*   src/src/client.rs  Client::send_context(_stream) and GemSession       *)
(*                                                                         *)
(* Conventions.  Option<T> is a sequence of length 0 (None) or 1 (Some).   *)
(* A Rust String whose characters matter is a sequence of one-character    *)
(* strings.  A JSON object is a function from its keys to its values, a    *)
(* JSON array is a sequence.  Result<T, E> is a record [ok, err, msg, val].*)
(***************************************************************************)
EXTENDS Integers, Sequences, FiniteSets, TLC

VARIABLES
    contents,   \* Context.contents: the conversation history
    owner,      \* who holds the Context: "caller" or "session" (GemSession.context is private)
    last,       \* the last GemSession call: its operation, turn, requests, HTTP outcome, result
    settings,   \* a Settings value
    request,    \* Option<GenerateContentRequest>: what Context::build returned last
    files,      \* FileManager.files: content hash -> File
    now,        \* chrono::Utc::now(), counted in half minutes
    pc,         \* per task: its position in add_file_from_bytes / File::upload
    local,      \* per task: the locals of the call in progress
    reqs,       \* per task: the HTTP requests the call in progress has issued
    resps,      \* per task: the HTTP responses the call in progress has received
    ret,        \* per task: Option<Result<FileData, GemError>> of the last call
    model,      \* a Models value
    out,        \* Option<String>: what Models::to_string returned
    doc,        \* a response body handed to serde_json::from_str
    parsed      \* Option<Result<GenerateContentResponse, serde_json::Error>>

vars == <<contents, owner, last, settings, request, files, now, pc, local,
          reqs, resps, ret, model, out, doc, parsed>>

sessionVars == <<contents, owner, last>>
buildVars   == <<settings, request>>
fileVars    == <<files, now, pc, local, reqs, resps, ret>>
modelVars   == <<model, out>>
deserVars   == <<doc, parsed>>

(***************************************************************************)
(* Option, Result, sequences                                               *)
(***************************************************************************)
None == <<>>

Some(x) == <<x>>

IsSome(o) == Len(o) = 1

Unwrap(o) == o[1]

IsPrefix(s, t) == Len(s) <= Len(t) /\ SubSeq(t, 1, Len(s)) = s

RECURSIVE SeqsUpTo(_, _)
SeqsUpTo(S, n) ==
    IF n = 0 THEN {<<>>}
    ELSE LET shorter == SeqsUpTo(S, n - 1)
         IN  shorter \cup {Append(s, x) : s \in shorter, x \in S}

(***************************************************************************)
(* api.rs: Models and Models::to_string                                    *)
(***************************************************************************)
Quote == "\""

NamedModels ==
    {"Gemini15ProExp0827", "Gemini15FlashExp0827", "Gemini15Flash8bExp0827",
     "Gemini15Pro", "Gemini2FlashExp", "Gemini2Flash", "Gemini2FlashLite",
     "Gemini2FlashThinkingExp", "Gemini2ProExp1206", "Gemini2ProExp",
     "Gemini25ProExp", "Gemini15Flash", "Gemini10Pro", "Gemma2_2bIt",
     "Gemma2_9bIt", "Gemma2_27bIt"}

\* The #[serde(rename = "...")] string of each unit variant.
SerdeRename(v) ==
    CASE v = "Gemini15ProExp0827" -> <<"g","e","m","i","n","i","-","1",".","5","-","p","r","o","-","e","x","p","-","0","8","2","7">>
      [] v = "Gemini15FlashExp0827" -> <<"g","e","m","i","n","i","-","1",".","5","-","f","l","a","s","h","-","e","x","p","-","0","8","2","7">>
      [] v = "Gemini15Flash8bExp0827" -> <<"g","e","m","i","n","i","-","1",".","5","-","f","l","a","s","h","-","8","b","-","e","x","p","-","0","8","2","7">>
      [] v = "Gemini15Pro" -> <<"g","e","m","i","n","i","-","1",".","5","-","p","r","o">>
      [] v = "Gemini2FlashExp" -> <<"g","e","m","i","n","i","-","2",".","0","-","f","l","a","s","h","-","e","x","p">>
      [] v = "Gemini2Flash" -> <<"g","e","m","i","n","i","-","2",".","0","-","f","l","a","s","h">>
      [] v = "Gemini2FlashLite" -> <<"g","e","m","i","n","i","-","2",".","0","-","f","l","a","s","h","-","l","i","t","e">>
      [] v = "Gemini2FlashThinkingExp" -> <<"g","e","m","i","n","i","-","2",".","0","-","f","l","a","s","h","-","t","h","i","n","k","i","n","g","-","e","x","p","-","0","1","-","2","1">>
      [] v = "Gemini2ProExp1206" -> <<"g","e","m","i","n","i","-","e","x","p","-","1","2","0","6">>
      [] v = "Gemini2ProExp" -> <<"g","e","m","i","n","i","-","2",".","0","-","p","r","o","-","e","x","p","-","0","2","-","0","5">>
      [] v = "Gemini25ProExp" -> <<"g","e","m","i","n","i","-","2",".","5","-","p","r","o","-","p","r","e","v","i","e","w","-","0","5","-","0","6">>
      [] v = "Gemini15Flash" -> <<"g","e","m","i","n","i","-","1",".","5","-","f","l","a","s","h">>
      [] v = "Gemini10Pro" -> <<"g","e","m","i","n","i","-","1",".","0","-","p","r","o">>
      [] v = "Gemma2_2bIt" -> <<"g","e","m","m","a","-","2","-","2","b","-","i","t">>
      [] v = "Gemma2_9bIt" -> <<"g","e","m","m","a","-","2","-","9","b","-","i","t">>
      [] v = "Gemma2_27bIt" -> <<"g","e","m","m","a","-","2","-","2","7","b","-","i","t">>

\* Models: a unit variant, or Custom(String).
NamedModel(v) == [variant |-> v, custom |-> <<>>]

CustomModel(s) == [variant |-> "Custom", custom |-> s]

\* serde_json::to_string of a unit variant: its rename string as a JSON string.
SerializeModel(m) == <<Quote>> \o SerdeRename(m.variant) \o <<Quote>>

StartsWith(s, pat) == Len(pat) <= Len(s) /\ SubSeq(s, 1, Len(pat)) = pat

\* str::replace(from, to) for a non-empty pattern: every non-overlapping match, left to right.
RECURSIVE Replace(_, _, _)
Replace(s, from, to) ==
    IF s = <<>> THEN <<>>
    ELSE IF StartsWith(s, from)
         THEN to \o Replace(SubSeq(s, Len(from) + 1, Len(s)), from, to)
         ELSE <<Head(s)>> \o Replace(Tail(s), from, to)

\* A plausible slip: the serialized JSON string is returned with its quotes, and
\* a custom name is returned as given.
to_string_unstripped(m) ==
    IF m.variant = "Custom" THEN m.custom ELSE SerializeModel(m)

\* Models::to_string
to_string(m) ==
    IF m.variant = "Custom"
    THEN Replace(m.custom, <<Quote>>, <<>>)
    ELSE Replace(SerializeModel(m), <<Quote>>, <<>>)

\* The custom model names tried: every string of at most MaxNameLen characters.
MaxNameLen == 3

NameChars == {"g", "-", Quote}

CustomNames == SeqsUpTo(NameChars, MaxNameLen)

AllModels == {NamedModel(v) : v \in NamedModels} \cup {CustomModel(s) : s \in CustomNames}

(***************************************************************************)
(* types.rs: the wire types and their serde deserialization                *)
(***************************************************************************)
Ok(v) == [ok |-> TRUE, err |-> "", msg |-> "", val |-> v]

Err(kind, message) == [ok |-> FALSE, err |-> kind, msg |-> message, val |-> <<>>]

\* #[serde(rename_all = "camelCase")]: the JSON key of a struct field.
CamelCase(field) ==
    CASE field = "prompt_feedback" -> "promptFeedback"
      [] field = "usage_metadata" -> "usageMetadata"
      [] field = "finish_reason" -> "finishReason"
      [] field = "safety_ratings" -> "safetyRatings"
      [] field = "token_count" -> "tokenCount"
      [] field = "block_reason" -> "blockReason"
      [] field = "prompt_token_count" -> "promptTokenCount"
      [] field = "cached_content_token_count" -> "cachedContentTokenCount"
      [] field = "candidates_token_count" -> "candidatesTokenCount"
      [] field = "total_token_count" -> "totalTokenCount"
      [] field = "display_name" -> "displayName"
      [] field = "mime_type" -> "mimeType"
      [] field = "size_bytes" -> "sizeBytes"
      [] field = "create_time" -> "createTime"
      [] field = "update_time" -> "updateTime"
      [] field = "expiration_time" -> "expirationTime"
      [] field = "sha256_hash" -> "sha256Hash"
      [] field = "video_metadata" -> "videoMetadata"
      [] field = "video_duration" -> "videoDuration"
      [] OTHER -> field

\* A struct without rename_all reads its fields under their Rust names.
SnakeCase(field) == field

\* The structs that carry #[serde(rename_all = "camelCase")].
ResponseKey(field) == CamelCase(field)

CandidateKey(field) == CamelCase(field)

PromptFeedbackKey(field) == CamelCase(field)

UsageMetadataKey(field) == CamelCase(field)

FileKey(field) == CamelCase(field)

HasKey(o, key) == key \in DOMAIN o

\* enum Role, #[serde(rename_all = "lowercase")]
Roles == {"Model", "User"}

RoleWire(r) == CASE r = "Model" -> "model" [] r = "User" -> "user"

\* enum FinishReason, #[serde(rename_all = "SCREAMING_SNAKE_CASE")]
FinishReasons ==
    {"FinishReasonUnspecified", "Stop", "MaxTokens", "Safety", "Recitation", "Language",
     "Other", "Blocklist", "ProhibitedContent", "Spii", "MalformedFunctionCall"}

FinishReasonWire(r) ==
    CASE r = "FinishReasonUnspecified" -> "FINISH_REASON_UNSPECIFIED"
      [] r = "Stop" -> "STOP"
      [] r = "MaxTokens" -> "MAX_TOKENS"
      [] r = "Safety" -> "SAFETY"
      [] r = "Recitation" -> "RECITATION"
      [] r = "Language" -> "LANGUAGE"
      [] r = "Other" -> "OTHER"
      [] r = "Blocklist" -> "BLOCKLIST"
      [] r = "ProhibitedContent" -> "PROHIBITED_CONTENT"
      [] r = "Spii" -> "SPII"
      [] r = "MalformedFunctionCall" -> "MALFORMED_FUNCTION_CALL"

\* enum BlockReason, #[serde(rename_all = "SCREAMING_SNAKE_CASE")]
BlockReasons == {"BlockReasonUnspecified", "Safety", "Other", "Blocklist", "ProhibitedContent"}

BlockReasonWire(r) ==
    CASE r = "BlockReasonUnspecified" -> "BLOCK_REASON_UNSPECIFIED"
      [] r = "Safety" -> "SAFETY"
      [] r = "Other" -> "OTHER"
      [] r = "Blocklist" -> "BLOCKLIST"
      [] r = "ProhibitedContent" -> "PROHIBITED_CONTENT"

\* impl Display for BlockReason
BlockReasonDisplay(r) ==
    CASE r = "BlockReasonUnspecified" -> "Unspecified"
      [] r = "Safety" -> "Safety"
      [] r = "Other" -> "Other"
      [] r = "Blocklist" -> "Blocklist"
      [] r = "ProhibitedContent" -> "Prohibited Content"

\* A unit-variant enum read from its wire string.
ParseRole(s) ==
    IF \E r \in Roles : RoleWire(r) = s
    THEN Ok(CHOOSE r \in Roles : RoleWire(r) = s)
    ELSE Err("serde", "unknown variant")

ParseFinishReason(s) ==
    IF \E r \in FinishReasons : FinishReasonWire(r) = s
    THEN Ok(CHOOSE r \in FinishReasons : FinishReasonWire(r) = s)
    ELSE Err("serde", "unknown variant")

ParseBlockReason(s) ==
    IF \E r \in BlockReasons : BlockReasonWire(r) = s
    THEN Ok(CHOOSE r \in BlockReasons : BlockReasonWire(r) = s)
    ELSE Err("serde", "unknown variant")

\* struct Blob { mime_type, data } and struct FileData { mime_type, file_uri }: no rename.
BlobValue(mime_type, data) == [variant |-> "InlineData", args |-> <<mime_type, data>>]

FileDataValue(mime_type, file_uri) == [variant |-> "FileData", args |-> <<mime_type, file_uri>>]

TextValue(text) == [variant |-> "Text", args |-> <<text>>]

IsBlobDoc(o) == HasKey(o, SnakeCase("mime_type")) /\ HasKey(o, SnakeCase("data"))

IsFileDataDoc(o) == HasKey(o, SnakeCase("mime_type")) /\ HasKey(o, SnakeCase("file_uri"))

\* enum PartData, untagged: the first variant whose fields the object has, in
\* declaration order.  rename_all on the enum renames variants, not their fields.
ParsePartData(o) ==
    IF HasKey(o, "inline_data") /\ IsBlobDoc(o["inline_data"])
    THEN Ok(BlobValue(o["inline_data"]["mime_type"], o["inline_data"]["data"]))
    ELSE IF HasKey(o, "file_data") /\ IsFileDataDoc(o["file_data"])
    THEN Ok(FileDataValue(o["file_data"]["mime_type"], o["file_data"]["file_uri"]))
    ELSE IF HasKey(o, "text")
    THEN Ok(TextValue(o["text"]))
    ELSE Err("serde", "data did not match any variant of untagged enum PartData")

\* struct Part { #[serde(flatten)] data: PartData }
ParsePart(o) ==
    LET d == ParsePartData(o)
    IN  IF d.ok THEN Ok([data |-> d.val]) ELSE d

\* struct Content { parts: Vec<Part>, role: Option<Role> }: no rename.
ParseContent(o) ==
    IF ~HasKey(o, SnakeCase("parts")) THEN Err("serde", "missing field parts")
    ELSE LET ps == [i \in 1..Len(o["parts"]) |-> ParsePart(o["parts"][i])]
             role == IF HasKey(o, SnakeCase("role")) THEN ParseRole(o["role"]) ELSE Ok("")
         IN  IF \E i \in 1..Len(ps) : ~ps[i].ok
             THEN Err("serde", "data did not match any variant of untagged enum PartData")
             ELSE IF ~role.ok THEN role
             ELSE Ok([parts |-> [i \in 1..Len(ps) |-> ps[i].val],
                      role |-> IF HasKey(o, SnakeCase("role")) THEN Some(role.val) ELSE None])

\* An Option<i32> / Option<Vec<_>> field: None when the key is absent.
OptField(o, key) == IF HasKey(o, key) THEN Some(o[key]) ELSE None

\* struct Candidate, rename_all = "camelCase": every field is an Option.
ParseCandidate(o) ==
    LET content == IF HasKey(o, CandidateKey("content")) THEN ParseContent(o[CandidateKey("content")]) ELSE Ok(<<>>)
        reason == IF HasKey(o, CandidateKey("finish_reason"))
                  THEN ParseFinishReason(o[CandidateKey("finish_reason")]) ELSE Ok("")
    IN  IF ~content.ok THEN content
        ELSE IF ~reason.ok THEN reason
        ELSE Ok([content |-> IF HasKey(o, CandidateKey("content")) THEN Some(content.val) ELSE None,
                 finish_reason |-> IF HasKey(o, CandidateKey("finish_reason")) THEN Some(reason.val) ELSE None,
                 safety_ratings |-> OptField(o, CandidateKey("safety_ratings")),
                 token_count |-> OptField(o, CandidateKey("token_count")),
                 index |-> OptField(o, CandidateKey("index"))])

\* struct PromptFeedback, rename_all = "camelCase": block_reason is an Option,
\* safety_ratings a Vec and therefore required.
ParsePromptFeedback(o) ==
    LET reason == IF HasKey(o, PromptFeedbackKey("block_reason"))
                  THEN ParseBlockReason(o[PromptFeedbackKey("block_reason")]) ELSE Ok("")
    IN  IF ~reason.ok THEN reason
        ELSE IF ~HasKey(o, PromptFeedbackKey("safety_ratings"))
        THEN Err("serde", "missing field safetyRatings")
        ELSE Ok([block_reason |-> IF HasKey(o, PromptFeedbackKey("block_reason")) THEN Some(reason.val) ELSE None,
                 safety_ratings |-> o[PromptFeedbackKey("safety_ratings")]])

\* struct UsageMetadata, rename_all = "camelCase": four Option<i32>.
ParseUsageMetadata(o) ==
    Ok([prompt_token_count |-> OptField(o, UsageMetadataKey("prompt_token_count")),
        cached_content_token_count |-> OptField(o, UsageMetadataKey("cached_content_token_count")),
        candidates_token_count |-> OptField(o, UsageMetadataKey("candidates_token_count")),
        total_token_count |-> OptField(o, UsageMetadataKey("total_token_count"))])

\* struct GenerateContentResponse, rename_all = "camelCase": candidates is a Vec
\* and therefore required, the other two fields are Options.
ParseGenerateContentResponse(o) ==
    IF ~HasKey(o, ResponseKey("candidates")) THEN Err("serde", "missing field candidates")
    ELSE LET cs == [i \in 1..Len(o[ResponseKey("candidates")]) |-> ParseCandidate(o[ResponseKey("candidates")][i])]
             pf == IF HasKey(o, ResponseKey("prompt_feedback"))
                   THEN ParsePromptFeedback(o[ResponseKey("prompt_feedback")]) ELSE Ok(<<>>)
             um == IF HasKey(o, ResponseKey("usage_metadata"))
                   THEN ParseUsageMetadata(o[ResponseKey("usage_metadata")]) ELSE Ok(<<>>)
         IN  IF \E i \in 1..Len(cs) : ~cs[i].ok
             THEN Err("serde", "invalid candidate")
             ELSE IF ~pf.ok THEN pf
             ELSE Ok([candidates |-> [i \in 1..Len(cs) |-> cs[i].val],
                      prompt_feedback |-> IF HasKey(o, ResponseKey("prompt_feedback")) THEN Some(pf.val) ELSE None,
                      usage_metadata |-> IF HasKey(o, ResponseKey("usage_metadata")) THEN Some(um.val) ELSE None])

\* struct Error { code, message, status }: no rename, every field required.
ParseError(o) ==
    IF HasKey(o, "code") /\ HasKey(o, "message") /\ HasKey(o, "status")
    THEN Ok([code |-> o["code"], message |-> o["message"], status |-> o["status"]])
    ELSE Err("serde", "missing field")

\* A response body: text that is a JSON object, or text that is not JSON at all.
JsonBody(o) == [json |-> TRUE, obj |-> o]

NotJson == [json |-> FALSE, obj |-> [garbage |-> "<html>"]]

\* serde_json::from_str::<GenerateContentResponse>
from_str_response(body) ==
    IF body.json THEN ParseGenerateContentResponse(body.obj) ELSE Err("serde", "expected value")

\* serde_json::from_str::<Error>
from_str_error(body) ==
    IF body.json THEN ParseError(body.obj) ELSE Err("serde", "expected value")

\* Candidate::get_content
get_content(candidate) == candidate.content

\* A plausible slip: the text of the last Text part.
get_text_last(content) ==
    LET texts == SelectSeq(content.parts, LAMBDA p : p.data.variant = "Text")
    IN  IF texts = <<>> THEN None ELSE Some(texts[Len(texts)].data.args[1])

\* Content::get_text: the text of the first Text part.
get_text(content) ==
    LET texts == SelectSeq(content.parts, LAMBDA p : p.data.variant = "Text")
    IN  IF texts = <<>> THEN None ELSE Some(texts[1].data.args[1])

\* GenerateContentResponse::get_candidates
get_candidates(response) == response.candidates

\* GenerateContentResponse::feedback
feedback(response) ==
    IF IsSome(response.prompt_feedback) /\ IsSome(Unwrap(response.prompt_feedback).block_reason)
    THEN Unwrap(response.prompt_feedback).block_reason
    ELSE None

(***************************************************************************)
(* types.rs: Settings, GenerateContentRequest, Context                     *)
(***************************************************************************)
HarmCategories ==
    <<"HarmCategoryHateSpeech", "HarmCategorySexuallyExplicit",
      "HarmCategoryDangerousContent", "HarmCategoryHarassment">>

\* The four SafetySetting values, one per category, with one threshold.
AllCategories(threshold) ==
    [i \in 1..Len(HarmCategories) |-> [category |-> HarmCategories[i], threshold |-> threshold]]

GenerationConfig(stop_sequences, response_mime_type, max_output_tokens, temperature, top_p, top_k) ==
    [stop_sequences |-> stop_sequences, response_mime_type |-> response_mime_type,
     max_output_tokens |-> max_output_tokens, temperature |-> temperature,
     top_p |-> top_p, top_k |-> top_k]

\* Settings::new
Settings_new == [safety_settings |-> None, generation_config |-> None, system_instruction |-> None]

\* Settings::set_all_safety_settings
set_all_safety_settings(s, threshold) ==
    [s EXCEPT !.safety_settings = Some(AllCategories(threshold))]

\* Settings::set_advance_settings
set_advance_settings(s, stop_sequences, response_mime_type, max_output_tokens, temperature, top_p, top_k) ==
    [s EXCEPT !.generation_config =
        Some(GenerationConfig(stop_sequences, response_mime_type, max_output_tokens,
                              temperature, top_p, top_k))]

\* Settings::set_temperature
set_temperature(s, temperature) ==
    IF IsSome(s.generation_config)
    THEN [s EXCEPT !.generation_config = Some([Unwrap(@) EXCEPT !.temperature = Some(temperature)])]
    ELSE [s EXCEPT !.generation_config = Some(GenerationConfig(None, None, None, Some(temperature), None, None))]

\* Settings::set_max_output_tokens
set_max_output_tokens(s, max_output_tokens) ==
    IF IsSome(s.generation_config)
    THEN [s EXCEPT !.generation_config = Some([Unwrap(@) EXCEPT !.max_output_tokens = Some(max_output_tokens)])]
    ELSE [s EXCEPT !.generation_config = Some(GenerationConfig(None, None, Some(max_output_tokens), None, None, None))]

\* Settings::set_system_instruction
set_system_instruction(s, instruction) == [s EXCEPT !.system_instruction = Some(instruction)]

\* The request built without the caller's safety settings and generation config:
\* the defaults are sent whatever the settings hold.
GenerateContentRequest_new_defaults(context, config, safety, system_instruction) ==
    [contents |-> context,
     safety_settings |-> Some(AllCategories("BlockNone")),
     generation_config |-> Some(GenerationConfig(None, None, Some(8192), Some(1), None, None)),
     system_instruction |-> system_instruction]

\* GenerateContentRequest::new: the context's turns, the given safety settings and
\* generation config or, for None, the defaults (BlockNone everywhere; 8192
\* output tokens at temperature 1.0).
GenerateContentRequest_new(context, config, safety, system_instruction) ==
    [contents |-> context,
     safety_settings |-> IF IsSome(safety) THEN safety ELSE Some(AllCategories("BlockNone")),
     generation_config |-> IF IsSome(config) THEN config
                           ELSE Some(GenerationConfig(None, None, Some(8192), Some(1), None, None)),
     system_instruction |-> system_instruction]

\* Context::new
Context_new == <<>>

\* A push that overwrites the last turn instead of appending after it.
push_message_overwrite(c, role, content) ==
    IF c = <<>> THEN <<[role |-> role, parts |-> <<[data |-> TextValue(content)]>>]>>
    ELSE [c EXCEPT ![Len(c)] = [role |-> role, parts |-> <<[data |-> TextValue(content)]>>]]

\* Context::push_message
push_message(c, role, content) ==
    Append(c, [role |-> role, parts |-> <<[data |-> TextValue(content)]>>])

\* Context::push_file
push_file(c, role, file_data) ==
    Append(c, [role |-> role, parts |-> <<[data |-> file_data]>>])

\* Context::push_blob
push_blob(c, role, blob) ==
    Append(c, [role |-> role, parts |-> <<[data |-> blob]>>])

\* Context::push_message_with_file
push_message_with_file(c, role, content, file_data) ==
    Append(c, [role |-> role, parts |-> <<[data |-> TextValue(content)], [data |-> file_data]>>])

\* Context::push_message_with_blob
push_message_with_blob(c, role, content, blob) ==
    Append(c, [role |-> role, parts |-> <<[data |-> TextValue(content)], [data |-> blob]>>])

\* Context::build
build(c, s) ==
    GenerateContentRequest_new(
        c, s.generation_config, s.safety_settings,
        IF IsSome(s.system_instruction)
        THEN Some([parts |-> <<[data |-> TextValue(Unwrap(s.system_instruction))]>>])
        ELSE None)

\* Context::clear
clear(c) == <<>>

\* Context::is_empty
is_empty(c) == c = <<>>

\* Context::len
len(c) == Len(c)

\* Context::get_contents
get_contents(c) == c

(***************************************************************************)
(* client.rs: Client::send_context, Client::send_context_stream            *)
(***************************************************************************)
\* reqwest::StatusCode::OK
StatusOK == 200

\* The request Client::send_context posts: the built context to :generateContent.
GenerateRequest(c, s) == [endpoint |-> "generateContent", body |-> build(c, s)]

\* The request Client::send_context_stream posts.
StreamRequest(c, s) == [endpoint |-> "streamGenerateContent", body |-> build(c, s)]

\* The checks only look at the first candidate (a plausible slip: the session
\* reads the first candidate only).
blocked_first_only(response) == ~IsSome(get_content(get_candidates(response)[1]))

\* Whether no candidate of the response has content (the loop over the candidates).
blocked(response) ==
    ~\E i \in 1..Len(get_candidates(response)) : IsSome(get_content(get_candidates(response)[i]))

\* A client that reports the prompt's block reason before it looks at the candidates.
send_context_result_feedback_first(o) ==
    IF o.send = "err" THEN Err("ConnectionError", "")
    ELSE IF o.text = "err" THEN Err("ResponseError", "")
    ELSE IF o.status = StatusOK
    THEN LET parsed_response == from_str_response(o.body)
         IN  IF ~parsed_response.ok THEN Err("ParsingError", parsed_response.msg)
             ELSE IF Len(get_candidates(parsed_response.val)) = 0 THEN Err("EmptyApiResponse", "")
             ELSE IF IsSome(feedback(parsed_response.val))
             THEN Err("FeedbackError", BlockReasonDisplay(Unwrap(feedback(parsed_response.val))))
             ELSE IF blocked(parsed_response.val) THEN Err("AllCandidatesBlocked", "")
             ELSE Ok(parsed_response.val)
    ELSE IF from_str_error(o.body).ok THEN Err("GeminiAPIError", from_str_error(o.body).val.message)
    ELSE Err("ParsingError", from_str_error(o.body).msg)

\* A client that reads the body as a response whatever the status is.
send_context_result_any_status(o) ==
    IF o.send = "err" THEN Err("ConnectionError", "")
    ELSE IF o.text = "err" THEN Err("ResponseError", "")
    ELSE LET parsed_response == from_str_response(o.body)
         IN  IF ~parsed_response.ok THEN Err("ParsingError", parsed_response.msg)
             ELSE IF Len(get_candidates(parsed_response.val)) = 0 THEN Err("EmptyApiResponse", "")
             ELSE IF blocked(parsed_response.val)
             THEN IF IsSome(feedback(parsed_response.val))
                  THEN Err("FeedbackError", BlockReasonDisplay(Unwrap(feedback(parsed_response.val))))
                  ELSE Err("AllCandidatesBlocked", "")
             ELSE Ok(parsed_response.val)

\* Client::send_context after the request was sent: o is what came back,
\* o.send ("ok"/"err"), o.text ("ok"/"err": reading the body), o.status, o.body.
send_context_result(o) ==
    IF o.send = "err" THEN Err("ConnectionError", "")
    ELSE IF o.text = "err" THEN Err("ResponseError", "")
    ELSE IF o.status = StatusOK
    THEN LET parsed_response == from_str_response(o.body)
         IN  IF ~parsed_response.ok THEN Err("ParsingError", parsed_response.msg)
             ELSE IF Len(get_candidates(parsed_response.val)) = 0 THEN Err("EmptyApiResponse", "")
             ELSE IF blocked(parsed_response.val)
             THEN IF IsSome(feedback(parsed_response.val))
                  THEN Err("FeedbackError", BlockReasonDisplay(Unwrap(feedback(parsed_response.val))))
                  ELSE Err("AllCandidatesBlocked", "")
             ELSE Ok(parsed_response.val)
    ELSE IF from_str_error(o.body).ok THEN Err("GeminiAPIError", from_str_error(o.body).val.message)
    ELSE Err("ParsingError", from_str_error(o.body).msg)

\* A client that sends the request again when the first attempt did not connect.
Client_send_context_retry(c, s, o) ==
    [sent |-> IF o.send = "err" THEN <<GenerateRequest(c, s), GenerateRequest(c, s)>>
              ELSE <<GenerateRequest(c, s)>>,
     result |-> send_context_result(o)]

\* Client::send_context: the requests it issued and what it returned.
Client_send_context(c, s, o) ==
    [sent |-> <<GenerateRequest(c, s)>>, result |-> send_context_result(o)]

\* Client::send_context_stream: Ok(stream) on status 200 (the stream decodes the
\* body lazily, as the caller polls it).  On another status the body is read
\* with unwrap(), which panics when the read fails.
Client_send_context_stream(c, s, o) ==
    [sent |-> <<StreamRequest(c, s)>>,
     result |-> IF o.send = "err" THEN Err("ConnectionError", "")
                ELSE IF o.status = StatusOK THEN Ok(<<>>)
                ELSE IF o.text = "err" THEN Err("panic", "called Result::unwrap() on an Err value")
                ELSE Err("StreamError", "Response error")]

(***************************************************************************)
(* client.rs: GemSession                                                   *)
(***************************************************************************)
\* GemSession::send_context
GemSession_send_context(c, s, o) == Client_send_context(c, s, o)

\* GemSession::send_context_stream
GemSession_send_context_stream(c, s, o) == Client_send_context_stream(c, s, o)

\* What a call leaves behind: the history, the requests issued, Client's result
\* and the handler's result.
Call(c, sent, client, result) == [contents |-> c, sent |-> sent, client |-> client, result |-> result]

\* A tail that takes the caller's turn back when the send failed.
reply_rollback(pushed, r) ==
    IF ~r.result.ok THEN Call(SubSeq(pushed, 1, Len(pushed) - 1), r.sent, r.result, r.result)
    ELSE LET first == get_candidates(r.result.val)[1]
         IN  IF IsSome(get_content(first))
             THEN IF IsSome(get_text(Unwrap(get_content(first))))
                  THEN Call(push_message(pushed, Some("Model"), Unwrap(get_text(Unwrap(get_content(first))))),
                            r.sent, r.result, r.result)
                  ELSE Call(SubSeq(pushed, 1, Len(pushed) - 1), r.sent, r.result, Err("EmptyApiResponse", ""))
             ELSE Call(pushed, r.sent, r.result, r.result)

\* A tail that records an empty Model turn for a content without text.
reply_empty_text(pushed, r) ==
    IF ~r.result.ok THEN Call(pushed, r.sent, r.result, r.result)
    ELSE LET first == get_candidates(r.result.val)[1]
         IN  IF IsSome(get_content(first))
             THEN IF IsSome(get_text(Unwrap(get_content(first))))
                  THEN Call(push_message(pushed, Some("Model"), Unwrap(get_text(Unwrap(get_content(first))))),
                            r.sent, r.result, r.result)
                  ELSE Call(push_message(pushed, Some("Model"), ""), r.sent, r.result, r.result)
             ELSE Call(pushed, r.sent, r.result, r.result)

\* The tail every non-streaming handler shares, after `self.send_context(settings).await`:
\* `?` returns the error; otherwise the first candidate's text, when it has
\* content, is pushed as a Model turn (EmptyApiResponse when it has no text part).
reply(pushed, r) ==
    IF ~r.result.ok THEN Call(pushed, r.sent, r.result, r.result)
    ELSE LET first == get_candidates(r.result.val)[1]
         IN  IF IsSome(get_content(first))
             THEN IF IsSome(get_text(Unwrap(get_content(first))))
                  THEN Call(push_message(pushed, Some("Model"), Unwrap(get_text(Unwrap(get_content(first))))),
                            r.sent, r.result, r.result)
                  ELSE Call(pushed, r.sent, r.result, Err("EmptyApiResponse", ""))
             ELSE Call(pushed, r.sent, r.result, r.result)

\* The streaming handlers' tail: Ok(Box::new(self.send_context_stream(settings).await?))
stream_reply(pushed, r) == Call(pushed, r.sent, r.result, r.result)

\* A handler that sends the stored context first and records the caller's turn after.
send_message_push_late(c, message, role, s, o) ==
    reply(push_message(c, Some(role), message), GemSession_send_context(c, s, o))

\* GemSession::send_message
send_message(c, message, role, s, o) ==
    LET pushed == push_message(c, Some(role), message)
    IN  reply(pushed, GemSession_send_context(pushed, s, o))

\* GemSession::send_file
send_file(c, file_data, role, s, o) ==
    LET pushed == push_file(c, Some(role), file_data)
    IN  reply(pushed, GemSession_send_context(pushed, s, o))

\* GemSession::send_blob
send_blob(c, blob, role, s, o) ==
    LET pushed == push_blob(c, Some(role), blob)
    IN  reply(pushed, GemSession_send_context(pushed, s, o))

\* GemSession::send_message_with_file
send_message_with_file(c, message, file_data, role, s, o) ==
    LET pushed == push_message_with_file(c, Some(role), message, file_data)
    IN  reply(pushed, GemSession_send_context(pushed, s, o))

\* GemSession::send_message_with_blob
send_message_with_blob(c, message, blob, role, s, o) ==
    LET pushed == push_message_with_blob(c, Some(role), message, blob)
    IN  reply(pushed, GemSession_send_context(pushed, s, o))

\* GemSession::send_message_stream
send_message_stream(c, message, role, s, o) ==
    LET pushed == push_message(c, Some(role), message)
    IN  stream_reply(pushed, GemSession_send_context_stream(pushed, s, o))

\* GemSession::send_file_stream
send_file_stream(c, file_data, role, s, o) ==
    LET pushed == push_file(c, Some(role), file_data)
    IN  stream_reply(pushed, GemSession_send_context_stream(pushed, s, o))

\* GemSession::send_blob_stream
send_blob_stream(c, blob, role, s, o) ==
    LET pushed == push_blob(c, Some(role), blob)
    IN  stream_reply(pushed, GemSession_send_context_stream(pushed, s, o))

\* GemSession::send_message_with_file_stream
send_message_with_file_stream(c, message, file_data, role, s, o) ==
    LET pushed == push_message_with_file(c, Some(role), message, file_data)
    IN  stream_reply(pushed, GemSession_send_context_stream(pushed, s, o))

\* GemSession::send_message_with_blob_stream
send_message_with_blob_stream(c, message, blob, role, s, o) ==
    LET pushed == push_message_with_blob(c, Some(role), message, blob)
    IN  stream_reply(pushed, GemSession_send_context_stream(pushed, s, o))

(***************************************************************************)
(* The inputs of the session: turns, settings, and what the server answers *)
(***************************************************************************)
MaxTurns == 2

MaxItems == 2

Messages == {"hi"}

FileDatas == {FileDataValue("image/png", "files/u1")}

Blobs == {BlobValue("image/png", "QUJD")}

ContextRoles == {None, Some("User")}

SendSettings == {Settings_new}

\* Candidates as the API writes them: with a two-part text content, without
\* content, and with a content that has no part.
CandText == [content |-> [parts |-> <<[text |-> "hello"], [text |-> "again"]>>, role |-> "model"],
             finishReason |-> "STOP", index |-> 0]

CandNoContent == [finishReason |-> "SAFETY", index |-> 0]

CandNoText == [content |-> [parts |-> <<>>, role |-> "model"], finishReason |-> "STOP", index |-> 0]

\* A candidate whose content holds an image and no text.
CandInline == [content |-> [parts |-> <<[inline_data |-> [mime_type |-> "image/png", data |-> "QUJD"]]>>,
                            role |-> "model"],
               finishReason |-> "STOP", index |-> 0]

\* The candidate lists the server answers with: none, one, or two candidates.
CandidateLists ==
    {<<>>, <<CandText>>, <<CandNoContent>>, <<CandNoText>>, <<CandInline>>,
     <<CandText, CandNoContent>>, <<CandNoContent, CandText>>,
     <<CandNoContent, CandNoContent>>, <<CandNoText, CandText>>}

FeedbackBlocked == [blockReason |-> "SAFETY", safetyRatings |-> <<>>]

FeedbackClear == [safetyRatings |-> <<>>]

FeedbackProhibited == [blockReason |-> "PROHIBITED_CONTENT", safetyRatings |-> <<>>]

ResponseDocs ==
    {[candidates |-> cs] : cs \in CandidateLists}
    \cup {[candidates |-> cs, promptFeedback |-> FeedbackBlocked] : cs \in CandidateLists}
    \cup {[candidates |-> cs, promptFeedback |-> FeedbackClear] : cs \in {<<CandText>>, <<CandNoContent>>}}
    \cup {[candidates |-> <<CandNoContent>>, promptFeedback |-> FeedbackProhibited]}
    \cup {[promptFeedback |-> FeedbackBlocked]}

ErrorDoc == [code |-> 400, message |-> "API key not valid", status |-> "INVALID_ARGUMENT"]

Outcome(send, text, status, body) == [send |-> send, text |-> text, status |-> status, body |-> body]

\* What can come back from one generateContent request.
Outcomes ==
    {Outcome("err", "err", 0, NotJson)}
    \cup {Outcome("ok", "err", st, NotJson) : st \in {StatusOK, 400}}
    \cup {Outcome("ok", "ok", StatusOK, JsonBody(d)) : d \in ResponseDocs \cup {ErrorDoc}}
    \cup {Outcome("ok", "ok", StatusOK, NotJson)}
    \cup {Outcome("ok", "ok", 400, b) : b \in {JsonBody(ErrorDoc), NotJson, JsonBody([candidates |-> <<CandText>>])}}

\* The answers followed for a send_context called by itself: one or two for
\* each kind of result of Client::send_context.
DirectOutcomes ==
    {o \in Outcomes :
        o.body \in {NotJson, JsonBody(ErrorDoc),
                    JsonBody([candidates |-> <<>>]),
                    JsonBody([candidates |-> <<CandText>>]),
                    JsonBody([candidates |-> <<CandText>>, promptFeedback |-> FeedbackBlocked]),
                    JsonBody([candidates |-> <<CandNoContent>>]),
                    JsonBody([candidates |-> <<CandNoContent>>, promptFeedback |-> FeedbackBlocked])}}

\* What can come back from one streamGenerateContent request, as far as the
\* call itself reads it: the status, and the body when the status is not 200.
StreamOutcomes ==
    {Outcome("err", "err", 0, NotJson),
     Outcome("ok", "ok", StatusOK, JsonBody([candidates |-> <<CandText>>])),
     Outcome("ok", "ok", 400, JsonBody(ErrorDoc)),
     Outcome("ok", "err", 400, NotJson)}

(***************************************************************************)
(* The session as a state machine: a Context is filled by its owner, moved *)
(* into a GemSession by GemSessionBuilder::context(..).build(), and from   *)
(* then on changed by the session's handlers only.                         *)
(***************************************************************************)
NonStreamOps ==
    {"send_message", "send_file", "send_blob", "send_message_with_file", "send_message_with_blob"}

StreamOps ==
    {"send_message_stream", "send_file_stream", "send_blob_stream",
     "send_message_with_file_stream", "send_message_with_blob_stream"}

NoArgs == [role |-> "User", message |-> None, attachment |-> None]

NoCall == [op |-> "none", args |-> NoArgs, sent |-> <<>>, outcome |-> None,
           client |-> Err("none", ""), result |-> Err("none", ""), consumed |-> 0]

\* The arguments of a handler call: the role, the message (if it takes one) and
\* the file or blob (if it takes one).
Args(role, message, attachment) == [role |-> role, message |-> message, attachment |-> attachment]

InitSession == contents = Context_new /\ owner = "caller" /\ last = NoCall

InitBuild == settings = Settings_new /\ request = None

IdleFiles ==
    /\ files = <<>> /\ now = 0 /\ pc = <<>> /\ local = <<>>
    /\ reqs = <<>> /\ resps = <<>> /\ ret = <<>>

IdleModels == model = NamedModel("Gemini2Flash") /\ out = None

IdleDeser == doc = NotJson /\ parsed = None

Init == InitSession /\ InitBuild /\ IdleFiles /\ IdleModels /\ IdleDeser

otherThanSession == <<buildVars, fileVars, modelVars, deserVars>>

\* A Context method called by the owner of the Context.
ByCaller(c) ==
    /\ owner = "caller"
    /\ contents' = c
    /\ UNCHANGED <<owner, last, otherThanSession>>

Context_push_message ==
    \E role \in ContextRoles, m \in Messages :
        Len(contents) < MaxTurns /\ ByCaller(push_message(contents, role, m))

Context_push_file ==
    \E role \in ContextRoles, f \in FileDatas :
        Len(contents) < MaxTurns /\ ByCaller(push_file(contents, role, f))

Context_push_blob ==
    \E role \in ContextRoles, b \in Blobs :
        Len(contents) < MaxTurns /\ ByCaller(push_blob(contents, role, b))

Context_push_message_with_file ==
    \E role \in ContextRoles, m \in Messages, f \in FileDatas :
        Len(contents) < MaxTurns /\ ByCaller(push_message_with_file(contents, role, m, f))

Context_push_message_with_blob ==
    \E role \in ContextRoles, m \in Messages, b \in Blobs :
        Len(contents) < MaxTurns /\ ByCaller(push_message_with_blob(contents, role, m, b))

Context_clear == contents # <<>> /\ ByCaller(clear(contents))

\* Context::get_contents_mut hands out &mut Vec<Content>; the caller then edits
\* the vector in place: here it pops the last turn or rewrites the first one's role.
Context_get_contents_mut ==
    /\ contents # <<>>
    /\ \E edit \in {"pop", "set_role"} :
          ByCaller(IF edit = "pop" THEN SubSeq(contents, 1, Len(contents) - 1)
                   ELSE [contents EXCEPT ![1].role = None])

\* GemSessionBuilder::context(context).build(): the Context moves into the session.
GemSessionBuilder_build ==
    /\ owner = "caller"
    /\ owner' = "session"
    /\ UNCHANGED <<contents, last, otherThanSession>>

\* A handler of the session ran with `args` and got `o` from the server;
\* `call` is what it left behind.
BySession(op, args, call, o) ==
    /\ contents' = call.contents
    /\ last' = [op |-> op, args |-> args, sent |-> call.sent, outcome |-> Some(o),
                client |-> call.client, result |-> call.result, consumed |-> 0]
    /\ UNCHANGED <<owner, otherThanSession>>

CanSend == owner = "session" /\ Len(contents) < MaxTurns

GemSession_send_message ==
    \E m \in Messages, role \in Roles, s \in SendSettings, o \in Outcomes :
        CanSend /\ BySession("send_message", Args(role, Some(m), None),
                             send_message(contents, m, role, s, o), o)

GemSession_send_file ==
    \E f \in FileDatas, role \in Roles, s \in SendSettings, o \in Outcomes :
        CanSend /\ BySession("send_file", Args(role, None, Some(f)),
                             send_file(contents, f, role, s, o), o)

GemSession_send_blob ==
    \E b \in Blobs, role \in Roles, s \in SendSettings, o \in Outcomes :
        CanSend /\ BySession("send_blob", Args(role, None, Some(b)),
                             send_blob(contents, b, role, s, o), o)

GemSession_send_message_with_file ==
    \E m \in Messages, f \in FileDatas, role \in Roles, s \in SendSettings, o \in Outcomes :
        CanSend /\ BySession("send_message_with_file", Args(role, Some(m), Some(f)),
                             send_message_with_file(contents, m, f, role, s, o), o)

GemSession_send_message_with_blob ==
    \E m \in Messages, b \in Blobs, role \in Roles, s \in SendSettings, o \in Outcomes :
        CanSend /\ BySession("send_message_with_blob", Args(role, Some(m), Some(b)),
                             send_message_with_blob(contents, m, b, role, s, o), o)

GemSession_send_message_stream ==
    \E m \in Messages, role \in Roles, s \in SendSettings, o \in StreamOutcomes :
        CanSend /\ BySession("send_message_stream", Args(role, Some(m), None),
                             send_message_stream(contents, m, role, s, o), o)

GemSession_send_file_stream ==
    \E f \in FileDatas, role \in Roles, s \in SendSettings, o \in StreamOutcomes :
        CanSend /\ BySession("send_file_stream", Args(role, None, Some(f)),
                             send_file_stream(contents, f, role, s, o), o)

GemSession_send_blob_stream ==
    \E b \in Blobs, role \in Roles, s \in SendSettings, o \in StreamOutcomes :
        CanSend /\ BySession("send_blob_stream", Args(role, None, Some(b)),
                             send_blob_stream(contents, b, role, s, o), o)

GemSession_send_message_with_file_stream ==
    \E m \in Messages, f \in FileDatas, role \in Roles, s \in SendSettings, o \in StreamOutcomes :
        CanSend /\ BySession("send_message_with_file_stream", Args(role, Some(m), Some(f)),
                             send_message_with_file_stream(contents, m, f, role, s, o), o)

GemSession_send_message_with_blob_stream ==
    \E m \in Messages, b \in Blobs, role \in Roles, s \in SendSettings, o \in StreamOutcomes :
        CanSend /\ BySession("send_message_with_blob_stream", Args(role, Some(m), Some(b)),
                             send_message_with_blob_stream(contents, m, b, role, s, o), o)

\* What a send_context or send_context_stream called by the caller itself
\* leaves behind: the history as it was, and Client's result as its own.
direct(c, r) == Call(c, r.sent, r.result, r.result)

\* GemSession::send_context (pub) called by the caller itself: the history is
\* sent as it is; no turn is pushed before and none after.
GemSession_send_context_call ==
    \E s \in SendSettings, o \in DirectOutcomes :
        CanSend /\ BySession("send_context", NoArgs,
                             direct(contents, GemSession_send_context(contents, s, o)), o)

\* GemSession::send_context_stream (pub) called by the caller itself.
GemSession_send_context_stream_call ==
    \E s \in SendSettings, o \in StreamOutcomes :
        CanSend /\ BySession("send_context_stream", NoArgs,
                             direct(contents, GemSession_send_context_stream(contents, s, o)), o)

\* The caller polls the stream a streaming send returned, and the next item is
\* decoded from the body.  The stream owns the response; it holds no reference
\* to the session.
Stream_next ==
    /\ last.op \in StreamOps \cup {"send_context_stream"} /\ last.result.ok
    /\ last.consumed < MaxItems
    /\ last' = [last EXCEPT !.consumed = @ + 1]
    /\ UNCHANGED <<contents, owner, otherThanSession>>

Next ==
    \/ Context_push_message
    \/ Context_push_file
    \/ Context_push_blob
    \/ Context_push_message_with_file
    \/ Context_push_message_with_blob
    \/ Context_clear
    \/ Context_get_contents_mut
    \/ GemSessionBuilder_build
    \/ GemSession_send_message
    \/ GemSession_send_file
    \/ GemSession_send_blob
    \/ GemSession_send_message_with_file
    \/ GemSession_send_message_with_blob
    \/ GemSession_send_message_stream
    \/ GemSession_send_file_stream
    \/ GemSession_send_blob_stream
    \/ GemSession_send_message_with_file_stream
    \/ GemSession_send_message_with_blob_stream
    \/ GemSession_send_context_call
    \/ GemSession_send_context_stream_call
    \/ Stream_next

Spec == Init /\ [][Next]_vars

(***************************************************************************)
(* Properties of the session                                               *)
(***************************************************************************)
GemErrors ==
    {"ConnectionError", "ResponseError", "ParsingError", "GeminiAPIError", "EmptyApiResponse",
     "FeedbackError", "AllCandidatesBlocked", "StreamError", "FileError"}

\* The turn a call is to record for its caller: the role given, then the message
\* text (if any), then the file or blob (if any).
CallerTurn(args) ==
    [role |-> Some(args.role),
     parts |-> (IF IsSome(args.message) THEN <<[data |-> TextValue(Unwrap(args.message))]>> ELSE <<>>)
               \o (IF IsSome(args.attachment) THEN <<[data |-> Unwrap(args.attachment)]>> ELSE <<>>)]

\* The candidates whose content has a text part, and the reply texts they hold.
TextCandidates(response) ==
    {i \in 1..Len(response.candidates) :
        /\ IsSome(response.candidates[i].content)
        /\ IsSome(get_text(Unwrap(response.candidates[i].content)))}

ReplyTexts(response) ==
    {Unwrap(get_text(Unwrap(response.candidates[i].content))) : i \in TextCandidates(response)}

\* C1: after a non-streaming send that returned Ok, the history ends with the
\* caller's turn followed by a Model turn that holds the reply text.
C1_OkSendEndsWithModelReply ==
    (last.op \in NonStreamOps /\ last.result.ok) =>
        /\ Len(contents) >= 2
        /\ contents[Len(contents) - 1] = CallerTurn(last.args)
        /\ contents[Len(contents)].role = Some("Model")
        /\ \E t \in ReplyTexts(last.result.val) :
              contents[Len(contents)].parts = <<[data |-> TextValue(t)]>>

\* C2 as stated: every step leaves the old history a prefix of the new one.
C2_AppendOnly == [][IsPrefix(contents, contents')]_vars

\* C2, amended: every step other than Context::clear and an edit through
\* Context::get_contents_mut leaves the old history a prefix of the new one, and
\* once the Context is inside a GemSession no step is one of those two.
C2_AppendOnlyExceptClearAndMut ==
    [][/\ (Context_clear \/ Context_get_contents_mut \/ IsPrefix(contents, contents'))
       /\ (owner = "session" => IsPrefix(contents, contents'))]_vars

\* A session call has extended a history that was not empty.
C2_Witness == owner = "session" /\ last.op \in NonStreamOps /\ last.result.ok /\ Len(contents) = 3

\* C3 as stated: the one request of a send carries the history as it was
\* before the call, in order, followed by the caller's new turn (every step of
\* a session other than the polling of a stream is a send).
C3_RequestCarriesHistoryAndNewTurn ==
    [][(owner = "session" /\ ~Stream_next) =>
          /\ Len(last'.sent) >= 1
          /\ \A i \in 1..Len(last'.sent) :
                last'.sent[i].body.contents = Append(contents, CallerTurn(last'.args))]_vars

\* C3, amended: the same for the ten sends that take a turn from the caller;
\* send_context and send_context_stream called by themselves append nothing, and
\* their request carries the history as it is.
C3_RequestCarriesHistoryAndTurnIfGiven ==
    [][(owner = "session" /\ ~Stream_next) =>
          /\ Len(last'.sent) >= 1
          /\ \A i \in 1..Len(last'.sent) : last'.sent[i].body.contents =
                IF last'.op \in NonStreamOps \cup StreamOps
                THEN Append(contents, CallerTurn(last'.args))
                ELSE contents
          /\ last'.op \notin NonStreamOps \cup StreamOps => contents' = contents]_vars

\* A send on a history that already had a turn.
C3_Witness ==
    /\ last.op \in StreamOps /\ Len(last.sent) = 1
    /\ Len(last.sent[1].body.contents) = 2
    /\ last.sent[1].body.contents = contents

\* What C4 asks of the answer to a request for Ok.
C4_Accepted(o) ==
    /\ o.send = "ok" /\ o.text = "ok"
    /\ o.status = StatusOK
    /\ from_str_response(o.body).ok
    /\ Len(from_str_response(o.body).val.candidates) >= 1
    /\ \E i \in 1..Len(from_str_response(o.body).val.candidates) :
          from_str_response(o.body).val.candidates[i].content # None

\* C4: Client::send_context returns Ok(response) exactly when the request
\* succeeded with status 200 and a parsable body with a candidate that has
\* content, and one GemError otherwise.
C4_OkIffAccepted ==
    last.op \in NonStreamOps =>
        /\ last.client.ok <=> C4_Accepted(Unwrap(last.outcome))
        /\ last.client.ok => /\ last.client.err = ""
                             /\ last.client.val = from_str_response(Unwrap(last.outcome).body).val
        /\ ~last.client.ok => last.client.err \in GemErrors /\ last.client.val = <<>>

\* Ok for a response whose first candidate has no content and whose second has.
C4_Witness ==
    /\ last.op \in NonStreamOps /\ last.client.ok
    /\ Len(last.client.val.candidates) = 2
    /\ last.client.val.candidates[1].content = None

\* C7: a call of a send operation, send_context and send_context_stream
\* included, issues at most one generate request.
C7_AtMostOneRequest ==
    last.op # "none" => Len(last.sent) <= 1

\* A call whose only request could not be sent.
C7_Witness ==
    /\ last.op \in NonStreamOps /\ last.result.err = "ConnectionError" /\ Len(last.sent) = 1

\* A step of the session that is a call of one of its send operations.
SendStep == owner = "session" /\ ~Stream_next

\* C11: a non-streaming send that returns an error leaves the history exactly
\* one turn longer, the caller's turn, and adds no Model turn.
C11_FailedSendKeepsCallerTurn ==
    [][(SendStep /\ last'.op \in NonStreamOps /\ ~last'.result.ok) =>
          contents' = Append(contents, CallerTurn(last'.args))]_vars

\* A send on a history of one turn was answered with an API error.
C11_Witness ==
    /\ last.op \in NonStreamOps /\ last.result.err = "GeminiAPIError"
    /\ Len(contents) = 2 /\ contents[2] = CallerTurn(last.args)

\* The Text parts of a content, by position.
TextParts(content) == {i \in 1..Len(content.parts) : content.parts[i].data.variant = "Text"}

FirstText(content) ==
    content.parts[CHOOSE i \in TextParts(content) : \A j \in TextParts(content) : i <= j].data.args[1]

ModelTurn(text) == [role |-> Some("Model"), parts |-> <<[data |-> TextValue(text)]>>]

\* C12: the Model turn a non-streaming send appends holds the first text part
\* of the first candidate's content; when the first candidate has no content
\* the send returns Ok and appends the caller's turn only.
C12_ModelTurnFromFirstCandidate ==
    [][(SendStep /\ last'.op \in NonStreamOps /\ last'.client.ok) =>
          LET first == last'.client.val.candidates[1]
              turn == CallerTurn(last'.args)
          IN  /\ first.content = None =>
                    /\ last'.result.ok
                    /\ contents' = Append(contents, turn)
              /\ (first.content # None /\ TextParts(first.content[1]) # {}) =>
                    /\ last'.result.ok
                    /\ contents' = contents \o <<turn, ModelTurn(FirstText(first.content[1]))>>
              /\ Len(contents') > Len(contents) + 1 =>
                    first.content # None /\ TextParts(first.content[1]) # {}]_vars

\* Ok without a Model turn: the first candidate has no content, the second has text.
C12_Witness ==
    /\ last.op \in NonStreamOps /\ last.result.ok
    /\ Len(last.result.val.candidates) = 2
    /\ last.result.val.candidates[1].content = None
    /\ TextParts(last.result.val.candidates[2].content[1]) # {}
    /\ contents = <<CallerTurn(last.args)>>

\* A Model turn with the first of two text parts.
C12_WitnessFirstText ==
    /\ last.op \in NonStreamOps /\ last.result.ok
    /\ Cardinality(TextParts(last.result.val.candidates[1].content[1])) = 2
    /\ contents[Len(contents)] = ModelTurn("hello")

\* C13: when Client::send_context returns Ok and the first candidate's content
\* has no text part, the send returns EmptyApiResponse and appends no Model turn.
C13_NoTextIsEmptyApiResponse ==
    [][(/\ SendStep /\ last'.op \in NonStreamOps /\ last'.client.ok
        /\ last'.client.val.candidates[1].content # None
        /\ TextParts(last'.client.val.candidates[1].content[1]) = {}) =>
          /\ last'.result = Err("EmptyApiResponse", "")
          /\ contents' = Append(contents, CallerTurn(last'.args))]_vars

\* The first candidate's content held an image only.
C13_Witness ==
    /\ last.op \in NonStreamOps /\ last.client.ok
    /\ last.client.val.candidates[1].content # None
    /\ Len(last.client.val.candidates[1].content[1].parts) = 1
    /\ last.client.val.candidates[1].content[1].parts[1].data.variant = "InlineData"
    /\ last.result = Err("EmptyApiResponse", "")
    /\ contents[Len(contents)] = CallerTurn(last.args)

\* The answer is a 200 response whose body parses.
Parses200(o) ==
    /\ o.send = "ok" /\ o.text = "ok" /\ o.status = StatusOK
    /\ from_str_response(o.body).ok

\* The text of a block reason, from its wire string.
ReasonText(wire) ==
    CASE wire = "BLOCK_REASON_UNSPECIFIED" -> "Unspecified"
      [] wire = "SAFETY" -> "Safety"
      [] wire = "OTHER" -> "Other"
      [] wire = "BLOCKLIST" -> "Blocklist"
      [] wire = "PROHIBITED_CONTENT" -> "Prohibited Content"

\* C14: for a 200 response that parses, Client::send_context returns
\* EmptyApiResponse for an empty candidate list; for a list without any
\* content, FeedbackError with the block reason when the prompt feedback has
\* one and AllCandidatesBlocked otherwise; and Ok when a candidate has content,
\* whatever the prompt feedback says.
C14_ErrorsOfParsedResponse ==
    (last.op \in NonStreamOps /\ Parses200(Unwrap(last.outcome))) =>
        LET d == Unwrap(last.outcome).body.obj
            cs == d["candidates"]
        IN  /\ Len(cs) = 0 => last.client = Err("EmptyApiResponse", "")
            /\ (Len(cs) > 0 /\ \A i \in 1..Len(cs) : "content" \notin DOMAIN cs[i]) =>
                  IF "promptFeedback" \in DOMAIN d /\ "blockReason" \in DOMAIN d["promptFeedback"]
                  THEN last.client = Err("FeedbackError", ReasonText(d["promptFeedback"]["blockReason"]))
                  ELSE last.client = Err("AllCandidatesBlocked", "")
            /\ (\E i \in 1..Len(cs) : "content" \in DOMAIN cs[i]) => last.client.ok

\* Ok for a response whose prompt feedback has a block reason and whose first
\* candidate has content.
C14_Witness ==
    /\ last.op \in NonStreamOps /\ last.client.ok
    /\ "promptFeedback" \in DOMAIN Unwrap(last.outcome).body.obj
    /\ "blockReason" \in DOMAIN Unwrap(last.outcome).body.obj["promptFeedback"]
    /\ last.client.val.candidates[1].content # None

\* FeedbackError with the text of PROHIBITED_CONTENT.
C14_WitnessFeedback ==
    /\ last.op \in NonStreamOps
    /\ last.client = Err("FeedbackError", "Prohibited Content")

\* The body of the answer could be read and is an API Error object.
IsErrorBody(o) ==
    /\ o.text = "ok" /\ o.body.json
    /\ {"code", "message", "status"} \subseteq DOMAIN o.body.obj

\* C15 as stated: an answer with a status other than 200 gives GeminiAPIError
\* when its body parses as an API Error and ParsingError when it does not, never
\* Ok; a request that could not be sent gives ConnectionError.
C15_ErrorsOfOtherStatus ==
    last.op \in NonStreamOps =>
        LET o == Unwrap(last.outcome)
        IN  /\ o.send = "err" => last.client.err = "ConnectionError"
            /\ (o.send = "ok" /\ o.status # StatusOK) =>
                  /\ ~last.client.ok
                  /\ last.client.err = IF IsErrorBody(o) THEN "GeminiAPIError" ELSE "ParsingError"

\* C15, amended: the same, and ResponseError when the body of the answer cannot
\* be read.
C15_ErrorsOfOtherStatusOrUnreadBody ==
    last.op \in NonStreamOps =>
        LET o == Unwrap(last.outcome)
        IN  /\ o.send = "err" => last.client.err = "ConnectionError"
            /\ (o.send = "ok" /\ o.status # StatusOK) =>
                  /\ ~last.client.ok
                  /\ last.client.err = IF o.text = "err" THEN "ResponseError"
                                       ELSE IF IsErrorBody(o) THEN "GeminiAPIError"
                                       ELSE "ParsingError"

\* ParsingError for a 400 answer whose body is a response document.
C15_Witness ==
    /\ last.op \in NonStreamOps
    /\ Unwrap(last.outcome).status = 400
    /\ Unwrap(last.outcome).body.json
    /\ "candidates" \in DOMAIN Unwrap(last.outcome).body.obj
    /\ last.client.err = "ParsingError"

\* C16: a streaming send appends the caller's turn and nothing else, whether it
\* returns a stream or an error, and polling the stream leaves the history as
\* it is; a status other than 200 gives StreamError, a request that could not
\* be sent gives ConnectionError.
C16_StreamSendAppendsCallerTurnOnly ==
    [][(owner = "session") =>
          /\ Stream_next => contents' = contents
          /\ (~Stream_next /\ last'.op \in StreamOps) =>
                LET o == Unwrap(last'.outcome)
                IN  /\ contents' = Append(contents, CallerTurn(last'.args))
                    /\ o.send = "err" => last'.result.err = "ConnectionError"
                    /\ (o.send = "ok" /\ o.status # StatusOK) => last'.result.err = "StreamError"
                    /\ (o.send = "ok" /\ o.status = StatusOK) => last'.result.ok]_vars

\* The part of C16 about the history alone.
C16_StreamSendFrame ==
    [][(owner = "session") =>
          /\ Stream_next => contents' = contents
          /\ (~Stream_next /\ last'.op \in StreamOps) =>
                contents' = Append(contents, CallerTurn(last'.args))]_vars

(***************************************************************************)
(* Settings and Context::build as a state machine: the caller fills a      *)
(* Context and a Settings value, builds a request from them and drops it.  *)
(* The model follows one built request at a time.                          *)
(***************************************************************************)
Thresholds == {"BlockNone", "BlockOnlyHigh"}

Temperatures == {0, 2}

OutputTokens == {256}

Instructions == {"be brief"}

otherThanBuild == <<owner, last, fileVars, modelVars, deserVars>>

BySettings(s) ==
    /\ request = None
    /\ settings' = s
    /\ UNCHANGED <<contents, request, otherThanBuild>>

Settings_set_all_safety_settings ==
    \E t \in Thresholds : BySettings(set_all_safety_settings(settings, t))

Settings_set_advance_settings ==
    BySettings(set_advance_settings(settings, None, Some("application/json"), Some(256),
                                    None, None, Some(40)))

Settings_set_temperature ==
    \E t \in Temperatures : BySettings(set_temperature(settings, t))

Settings_set_max_output_tokens ==
    \E n \in OutputTokens : BySettings(set_max_output_tokens(settings, n))

Settings_set_system_instruction ==
    \E i \in Instructions : BySettings(set_system_instruction(settings, i))

\* Context::build(&self, &Settings): the request is returned, nothing is written.
Context_build ==
    /\ request = None
    /\ request' = Some(build(contents, settings))
    /\ UNCHANGED <<contents, settings, otherThanBuild>>

\* The caller is done with the request.
Request_drop ==
    /\ request # None
    /\ request' = None
    /\ UNCHANGED <<contents, settings, otherThanBuild>>

NextBuild ==
    \/ request = None /\ Context_push_message
    \/ request = None /\ Context_push_message_with_blob
    \/ request = None /\ Context_clear
    \/ Settings_set_all_safety_settings
    \/ Settings_set_advance_settings
    \/ Settings_set_temperature
    \/ Settings_set_max_output_tokens
    \/ Settings_set_system_instruction
    \/ Context_build
    \/ Request_drop

SpecBuild == Init /\ [][NextBuild]_vars

\* C8: the request Context::build returns holds the context's turns in order,
\* the settings' safety settings and generation config when they are set, a
\* system instruction exactly when the settings have one, and the call changes
\* neither the context nor the settings.
C8_BuildCopiesContextAndSettings ==
    [][(request = None /\ request' # None) =>
          /\ Unwrap(request').contents = contents
          /\ IsSome(settings.safety_settings) =>
                Unwrap(request').safety_settings = settings.safety_settings
          /\ IsSome(settings.generation_config) =>
                Unwrap(request').generation_config = settings.generation_config
          /\ IsSome(Unwrap(request').system_instruction) <=> IsSome(settings.system_instruction)
          /\ contents' = contents
          /\ settings' = settings]_vars

\* A request built from two turns and from settings with all three parts set.
C8_Witness ==
    /\ request # None
    /\ Len(contents) = 2 /\ Unwrap(request).contents = contents
    /\ IsSome(settings.safety_settings)
    /\ Unwrap(settings.safety_settings)[1].threshold = "BlockOnlyHigh"
    /\ IsSome(settings.generation_config)
    /\ IsSome(settings.system_instruction)

(***************************************************************************)
(* Models::to_string applied to every model value                          *)
(***************************************************************************)
InitModels ==
    /\ InitSession /\ InitBuild /\ IdleFiles /\ IdleDeser
    /\ model \in AllModels
    /\ out = None

Models_to_string ==
    /\ out = None
    /\ out' = Some(to_string(model))
    /\ UNCHANGED <<model, sessionVars, buildVars, fileVars, deserVars>>

NextModels == Models_to_string

SpecModels == InitModels /\ [][NextModels]_vars

\* C9 as stated: to_string gives the rename string of a named variant and, for
\* Custom(s), s itself.
C9_ToStringIsWireIdentifier ==
    out # None =>
        Unwrap(out) = IF model.variant = "Custom" THEN model.custom ELSE SerdeRename(model.variant)

\* C9, amended: to_string gives the rename string of a named variant, without
\* quotes, and for Custom(s) it gives s without its double-quote characters,
\* which is s itself when s has none.
C9_ToStringDropsQuotes ==
    out # None =>
        /\ model.variant # "Custom" => Unwrap(out) = SerdeRename(model.variant)
        /\ model.variant = "Custom" =>
              /\ Unwrap(out) = SelectSeq(model.custom, LAMBDA ch : ch # Quote)
              /\ (\A i \in 1..Len(model.custom) : model.custom[i] # Quote) => Unwrap(out) = model.custom
        /\ \A i \in 1..Len(Unwrap(out)) : Unwrap(out)[i] # Quote

\* to_string has run on a custom name that holds a double quote between two
\* other characters.
C9_Witness ==
    /\ out # None
    /\ model = CustomModel(<<"g", Quote, "-">>)
    /\ Unwrap(out) = <<"g", "-">>

(***************************************************************************)
(* serde_json::from_str::<GenerateContentResponse> applied to response     *)
(* documents                                                               *)
(***************************************************************************)
\* The candidate of the repository's own test document.
CandFull ==
    [content |-> [parts |-> <<[text |-> "Sample text"]>>, role |-> "model"],
     finishReason |-> "STOP",
     safetyRatings |-> <<[category |-> "violence", probability |-> "low", blocked |-> FALSE]>>,
     tokenCount |-> 10,
     index |-> 0]

DeserCandidateLists == CandidateLists \cup {<<CandFull>>, <<CandFull, CandText>>}

FeedbackFull ==
    [blockReason |-> "SAFETY",
     safetyRatings |-> <<[category |-> "violence", probability |-> "low", blocked |-> FALSE]>>]

\* A prompt feedback as the API writes it for a prompt blocked without ratings.
FeedbackReasonOnly == [blockReason |-> "OTHER"]

UsageFull ==
    [promptTokenCount |-> 5, cachedContentTokenCount |-> 3,
     candidatesTokenCount |-> 10, totalTokenCount |-> 18]

DeserDocs ==
    {[candidates |-> cs] : cs \in DeserCandidateLists}
    \cup {[candidates |-> cs, usageMetadata |-> UsageFull] : cs \in DeserCandidateLists}
    \cup {[candidates |-> cs, promptFeedback |-> pf] :
            cs \in DeserCandidateLists, pf \in {FeedbackFull, FeedbackClear, FeedbackReasonOnly}}
    \cup {[candidates |-> cs, promptFeedback |-> pf, usageMetadata |-> UsageFull] :
            cs \in DeserCandidateLists, pf \in {FeedbackFull, FeedbackClear, FeedbackReasonOnly}}
    \cup {[promptFeedback |-> FeedbackFull, usageMetadata |-> UsageFull]}

DeserBodies == {JsonBody(d) : d \in DeserDocs} \cup {NotJson, JsonBody(ErrorDoc)}

InitDeser ==
    /\ InitSession /\ InitBuild /\ IdleFiles /\ IdleModels
    /\ doc \in DeserBodies
    /\ parsed = None

Deserialize ==
    /\ parsed = None
    /\ parsed' = Some(from_str_response(doc))
    /\ UNCHANGED <<doc, sessionVars, buildVars, fileVars, modelVars>>

NextDeser == Deserialize

SpecDeser == InitDeser /\ [][NextDeser]_vars

\* A document with the fields C10 lists: candidates (each with any of content,
\* finishReason, safetyRatings, tokenCount, index), and, when present, a
\* promptFeedback with a blockReason and a usageMetadata with the four counts.
C10_Listed(d) ==
    /\ HasKey(d, "candidates")
    /\ HasKey(d, "promptFeedback") => HasKey(d["promptFeedback"], "blockReason")
    /\ HasKey(d, "usageMetadata") =>
          DOMAIN d["usageMetadata"] = {"promptTokenCount", "cachedContentTokenCount",
                                       "candidatesTokenCount", "totalTokenCount"}

\* The values of a parsed response equal those of the document it was read from.
C10_SameValues(r, d) ==
    /\ Len(r.candidates) = Len(d["candidates"])
    /\ \A i \in 1..Len(d["candidates"]) :
          LET c == r.candidates[i]
              cd == d["candidates"][i]
          IN  /\ IsSome(c.content) <=> HasKey(cd, "content")
              /\ HasKey(cd, "content") =>
                    /\ Len(Unwrap(c.content).parts) = Len(cd["content"]["parts"])
                    /\ IsSome(Unwrap(c.content).role)
                    /\ RoleWire(Unwrap(Unwrap(c.content).role)) = cd["content"]["role"]
              /\ IsSome(c.finish_reason) <=> HasKey(cd, "finishReason")
              /\ HasKey(cd, "finishReason") => FinishReasonWire(Unwrap(c.finish_reason)) = cd["finishReason"]
              /\ IsSome(c.safety_ratings) <=> HasKey(cd, "safetyRatings")
              /\ HasKey(cd, "safetyRatings") => Len(Unwrap(c.safety_ratings)) = Len(cd["safetyRatings"])
              /\ c.token_count = OptField(cd, "tokenCount")
              /\ c.index = OptField(cd, "index")
    /\ IsSome(r.prompt_feedback) <=> HasKey(d, "promptFeedback")
    /\ HasKey(d, "promptFeedback") =>
          /\ IsSome(Unwrap(r.prompt_feedback).block_reason)
          /\ BlockReasonWire(Unwrap(Unwrap(r.prompt_feedback).block_reason)) = d["promptFeedback"]["blockReason"]
    /\ IsSome(r.usage_metadata) <=> HasKey(d, "usageMetadata")
    /\ HasKey(d, "usageMetadata") =>
          /\ Unwrap(r.usage_metadata).prompt_token_count = Some(d["usageMetadata"]["promptTokenCount"])
          /\ Unwrap(r.usage_metadata).cached_content_token_count = Some(d["usageMetadata"]["cachedContentTokenCount"])
          /\ Unwrap(r.usage_metadata).candidates_token_count = Some(d["usageMetadata"]["candidatesTokenCount"])
          /\ Unwrap(r.usage_metadata).total_token_count = Some(d["usageMetadata"]["totalTokenCount"])

\* C10: a response document with the listed camelCase fields deserializes to a
\* GenerateContentResponse whose candidate count, part counts, roles, finish
\* reasons, block reason and token counts are the document's.
C10_DeserializeKeepsValues ==
    (parsed # None /\ doc.json /\ C10_Listed(doc.obj)) =>
        /\ Unwrap(parsed).ok
        /\ C10_SameValues(Unwrap(parsed).val, doc.obj)

\* The same for the documents whose promptFeedback also carries safetyRatings,
\* as the one of test_deserialize_generate_content_response does.
C10_DeserializeKeepsValuesWithRatings ==
    (/\ parsed # None /\ doc.json /\ C10_Listed(doc.obj)
     /\ HasKey(doc.obj, "promptFeedback") => HasKey(doc.obj["promptFeedback"], "safetyRatings")) =>
        /\ Unwrap(parsed).ok
        /\ C10_SameValues(Unwrap(parsed).val, doc.obj)

(***************************************************************************)
(* types.rs: timestamps, File, File::upload, FileManager                   *)
(***************************************************************************)
\* The clock counts half minutes, so that a timestamp can carry a fraction.
minutes(n) == 2 * n

Digit(n) ==
    CASE n = 0 -> "0" [] n = 1 -> "1" [] n = 2 -> "2" [] n = 3 -> "3" [] n = 4 -> "4"
      [] n = 5 -> "5" [] n = 6 -> "6" [] n = 7 -> "7" [] n = 8 -> "8" [] n = 9 -> "9"

\* The whole minutes in a field of fixed width, then the fraction when there is one.
DateTime(t) ==
    <<Digit((t \div 2) \div 10), Digit((t \div 2) % 10)>>
        \o (IF t % 2 = 0 THEN <<>> ELSE <<".", "5">>)

\* DateTime<Utc>::to_rfc3339 writes the UTC offset as +00:00.
to_rfc3339(t) == DateTime(t) \o <<"+", "0", "0", ":", "0", "0">>

\* The API writes its timestamps in UTC with the suffix Z.
ServerTime(t) == DateTime(t) \o <<"Z">>

\* The byte of a character.
Byte(ch) ==
    CASE ch = "+" -> 43 [] ch = "." -> 46 [] ch = ":" -> 58 [] ch = "Z" -> 90
      [] ch = "0" -> 48 [] ch = "1" -> 49 [] ch = "2" -> 50 [] ch = "3" -> 51 [] ch = "4" -> 52
      [] ch = "5" -> 53 [] ch = "6" -> 54 [] ch = "7" -> 55 [] ch = "8" -> 56 [] ch = "9" -> 57

\* String > String: the lexicographic order of the bytes.
StringGt(a, b) ==
    \E i \in 1..Len(a) :
        /\ \A j \in 1..(i - 1) : j <= Len(b) /\ a[j] = b[j]
        /\ i > Len(b) \/ Byte(a[i]) > Byte(b[i])

\* struct FileData { mime_type, file_uri }
FileData(mime_type, file_uri) == [mime_type |-> mime_type, file_uri |-> file_uri]

\* struct Status, #[serde(rename_all = "camelCase")]: code and message are required.
ParseStatus(o) ==
    IF HasKey(o, "code") /\ HasKey(o, "message")
    THEN Ok([code |-> o["code"], message |-> o["message"]])
    ELSE Err("serde", "missing field")

\* struct VideoMetadata, #[serde(rename_all = "camelCase")]: video_duration is required.
ParseVideoMetadata(o) ==
    IF HasKey(o, CamelCase("video_duration"))
    THEN Ok([video_duration |-> o[CamelCase("video_duration")]])
    ELSE Err("serde", "missing field")

FileStrings ==
    {"name", "uri", "display_name", "mime_type", "size_bytes", "create_time",
     "update_time", "expiration_time", "sha256_hash", "state"}

\* struct File, #[serde(rename_all = "camelCase")]: ten required strings, an
\* optional error, an optional video_metadata, and api_key, which serde skips
\* and leaves empty.
ParseFile(o) ==
    IF \E f \in FileStrings : ~HasKey(o, FileKey(f))
    THEN Err("serde", "missing field")
    ELSE IF HasKey(o, "error") /\ ~ParseStatus(o["error"]).ok
    THEN Err("serde", "missing field")
    ELSE IF HasKey(o, FileKey("video_metadata")) /\ ~ParseVideoMetadata(o[FileKey("video_metadata")]).ok
    THEN Err("serde", "missing field")
    ELSE Ok([name |-> o[FileKey("name")],
             uri |-> o[FileKey("uri")],
             display_name |-> o[FileKey("display_name")],
             mime_type |-> o[FileKey("mime_type")],
             size_bytes |-> o[FileKey("size_bytes")],
             create_time |-> o[FileKey("create_time")],
             update_time |-> o[FileKey("update_time")],
             expiration_time |-> o[FileKey("expiration_time")],
             sha256_hash |-> o[FileKey("sha256_hash")],
             state |-> o[FileKey("state")],
             error |-> IF HasKey(o, "error") THEN Some(ParseStatus(o["error"]).val) ELSE None,
             video_metadata |-> IF HasKey(o, FileKey("video_metadata"))
                                THEN Some(ParseVideoMetadata(o[FileKey("video_metadata")]).val)
                                ELSE None,
             api_key |-> ""])

\* An HTTP exchange: whether send() returned a response, the headers of the
\* response, and its body when text() can read it.
Response(sent, headers, text) == [sent |-> sent, headers |-> headers, text |-> text]

NoHeaders == [k \in {} |-> k]

TransportError == Response(FALSE, NoHeaders, None)

HttpRequest(method, url, command, body) ==
    [method |-> method, url |-> url, command |-> command, body |-> body]

FileError(message) == Err("FileError", message)

\* File::upload, the start request.
StartRequest ==
    HttpRequest("POST", <<"https://generativelanguage.googleapis.com/upload/v1beta/files">>, "start", "")

\* A plausible slip: a start response without the upload URL header is not an
\* error, and the upload goes on with an empty URL.
location_or_empty(reserve_response) ==
    IF ~reserve_response.sent THEN FileError("send")
    ELSE IF ~HasKey(reserve_response.headers, "X-Goog-Upload-URL") THEN Ok("")
    ELSE Ok(reserve_response.headers["X-Goog-Upload-URL"].value)

\* File::upload, the upload URL of the start response.
location(reserve_response) ==
    IF ~reserve_response.sent THEN FileError("send")
    ELSE IF ~HasKey(reserve_response.headers, "X-Goog-Upload-URL")
    THEN FileError("X-Goog-Upload-URL header not found")
    ELSE IF ~reserve_response.headers["X-Goog-Upload-URL"].visible
    THEN FileError("failed to convert header to a str")
    ELSE Ok(reserve_response.headers["X-Goog-Upload-URL"].value)

\* File::upload, the PUT of the bytes.
PutRequest(url, buffer) == HttpRequest("PUT", <<url>>, "upload, finalize", buffer)

\* File::upload, the File of the PUT response.
uploaded_file(upload_response) ==
    IF ~upload_response.sent THEN FileError("send")
    ELSE IF upload_response.text = None THEN FileError("text")
    ELSE LET body == Unwrap(upload_response.text)
         IN  IF ~body.json THEN FileError("expected value")
             ELSE IF ~HasKey(body.obj, "file") THEN FileError("File data not found")
             ELSE IF ~ParseFile(body.obj["file"]).ok THEN FileError("missing field")
             ELSE Ok(ParseFile(body.obj["file"]).val)

\* File::upload, a state request.
StateRequest(name) ==
    HttpRequest("GET", <<"https://generativelanguage.googleapis.com/v1beta/", name>>, "", "")

\* A plausible slip: the counter is compared with > instead of >=, one more turn.
poll_timeout_late(timeout, response) ==
    IF ~response.sent THEN [next |-> "return", timeout |-> timeout, result |-> FileError("send")]
    ELSE IF response.text = None THEN [next |-> "return", timeout |-> timeout, result |-> FileError("text")]
    ELSE LET body == Unwrap(response.text)
             parsed_state == IF body.json THEN ParseFile(body.obj) ELSE Err("serde", "expected value")
         IN  IF ~parsed_state.ok
             THEN [next |-> "return", timeout |-> timeout, result |-> FileError("File data not found")]
             ELSE LET file_state == parsed_state.val
                  IN  IF file_state.state = "ACTIVE"
                      THEN [next |-> "break", timeout |-> timeout, result |-> Ok(<<>>)]
                      ELSE IF file_state.state = "FAILED"
                      THEN [next |-> "return", timeout |-> timeout,
                            result |-> FileError(IF IsSome(file_state.error)
                                                 THEN Unwrap(file_state.error).message
                                                 ELSE "File processing failed")]
                      ELSE IF file_state.state # "PROCESSING"
                      THEN [next |-> "return", timeout |-> timeout,
                            result |-> FileError("File processing unknown state")]
                      ELSE IF timeout > 3
                      THEN [next |-> "return", timeout |-> timeout,
                            result |-> FileError("File processing timeout")]
                      ELSE [next |-> "continue", timeout |-> timeout + 1, result |-> Ok(<<>>)]

\* A plausible slip: a state that is not known is waited on like PROCESSING.
poll_unknown_continues(timeout, response) ==
    IF ~response.sent THEN [next |-> "return", timeout |-> timeout, result |-> FileError("send")]
    ELSE IF response.text = None THEN [next |-> "return", timeout |-> timeout, result |-> FileError("text")]
    ELSE LET body == Unwrap(response.text)
             parsed_state == IF body.json THEN ParseFile(body.obj) ELSE Err("serde", "expected value")
         IN  IF ~parsed_state.ok
             THEN [next |-> "return", timeout |-> timeout, result |-> FileError("File data not found")]
             ELSE LET file_state == parsed_state.val
                  IN  IF file_state.state = "ACTIVE"
                      THEN [next |-> "break", timeout |-> timeout, result |-> Ok(<<>>)]
                      ELSE IF file_state.state = "FAILED"
                      THEN [next |-> "return", timeout |-> timeout,
                            result |-> FileError(IF IsSome(file_state.error)
                                                 THEN Unwrap(file_state.error).message
                                                 ELSE "File processing failed")]
                      ELSE IF FALSE
                      THEN [next |-> "return", timeout |-> timeout,
                            result |-> FileError("File processing unknown state")]
                      ELSE IF timeout >= 3
                      THEN [next |-> "return", timeout |-> timeout,
                            result |-> FileError("File processing timeout")]
                      ELSE [next |-> "continue", timeout |-> timeout + 1, result |-> Ok(<<>>)]

\* File::upload, one turn of the polling loop with the counter at timeout:
\* the loop breaks, goes on with the counter raised, or returns an error.
poll(timeout, response) ==
    IF ~response.sent THEN [next |-> "return", timeout |-> timeout, result |-> FileError("send")]
    ELSE IF response.text = None THEN [next |-> "return", timeout |-> timeout, result |-> FileError("text")]
    ELSE LET body == Unwrap(response.text)
             parsed_state == IF body.json THEN ParseFile(body.obj) ELSE Err("serde", "expected value")
         IN  IF ~parsed_state.ok
             THEN [next |-> "return", timeout |-> timeout, result |-> FileError("File data not found")]
             ELSE LET file_state == parsed_state.val
                  IN  IF file_state.state = "ACTIVE"
                      THEN [next |-> "break", timeout |-> timeout, result |-> Ok(<<>>)]
                      ELSE IF file_state.state = "FAILED"
                      THEN [next |-> "return", timeout |-> timeout,
                            result |-> FileError(IF IsSome(file_state.error)
                                                 THEN Unwrap(file_state.error).message
                                                 ELSE "File processing failed")]
                      ELSE IF file_state.state # "PROCESSING"
                      THEN [next |-> "return", timeout |-> timeout,
                            result |-> FileError("File processing unknown state")]
                      ELSE IF timeout >= 3
                      THEN [next |-> "return", timeout |-> timeout,
                            result |-> FileError("File processing timeout")]
                      ELSE [next |-> "continue", timeout |-> timeout + 1, result |-> Ok(<<>>)]

\* File::delete: no request without an API key; the outcome of the request is dropped.
delete(file) ==
    IF file.api_key = "" THEN <<>> ELSE <<HttpRequest("DELETE", <<file.uri>>, "", "")>>

\* HashMap::remove and HashMap::insert
Remove(map, key) == [k \in DOMAIN map \ {key} |-> map[k]]

Insert(map, key, value) == [k \in DOMAIN map \cup {key} |-> IF k = key THEN value ELSE map[k]]

EmptyMap == [k \in {} |-> k]

\* A plausible slip: the entry of the hash is taken as expired whatever its
\* expiration_time, so it is removed and never served.
get_file_as_expired(map, hash, time) ==
    IF hash \in DOMAIN map
    THEN [found |-> None, files |-> Remove(map, hash), deleted |-> delete(map[hash])]
    ELSE [found |-> None, files |-> map, deleted |-> <<>>]

\* FileManager::get_file, under the mutex: the entry of the hash is served when
\* its expiration_time is above now + 10 minutes as a string, and removed and
\* deleted on the server otherwise.
get_file(map, hash, time) ==
    IF hash \in DOMAIN map
    THEN IF StringGt(map[hash].expiration_time, to_rfc3339(time + minutes(10)))
         THEN [found |-> Some(FileData(map[hash].mime_type, map[hash].uri)),
               files |-> map, deleted |-> <<>>]
         ELSE [found |-> None, files |-> Remove(map, hash), deleted |-> delete(map[hash])]
    ELSE [found |-> None, files |-> map, deleted |-> <<>>]

\* Option<FileData> as get_file returns it to a caller.
found_or_none(found) == IF IsSome(found) THEN Ok(Unwrap(found)) ELSE Err("None", "")

\* FileManager::fetch_list, a list request: the page token is sent when there is one.
ListRequest(page_token) ==
    HttpRequest("GET", <<"https://generativelanguage.googleapis.com/v1beta/files">> \o page_token, "", "")

\* FileManager::fetch_list, the loop over the pages the server answers with:
\* the files listed so far, the requests sent, and Err on the first page that
\* cannot be read. A page without the key files ends the list.
RECURSIVE fetch_pages(_, _, _)
fetch_pages(pages, page_token, listed) ==
    LET response == Head(pages)
        sent_now == <<ListRequest(page_token)>>
        failed(message) == [result |-> FileError(message), listed |-> <<>>, requests |-> sent_now]
    IN  IF ~response.sent THEN failed("send")
        ELSE IF response.text = None THEN failed("text")
        ELSE LET body == Unwrap(response.text)
             IN  IF ~body.json THEN failed("expected value")
                 ELSE IF ~HasKey(body.obj, "files")
                 THEN [result |-> Ok(<<>>), listed |-> listed, requests |-> sent_now]
                 ELSE IF \E i \in 1..Len(body.obj["files"]) : ~ParseFile(body.obj["files"][i]).ok
                 THEN failed("missing field")
                 ELSE LET new_files == [i \in 1..Len(body.obj["files"]) |-> ParseFile(body.obj["files"][i]).val]
                      IN  IF ~HasKey(body.obj, "nextPageToken")
                          THEN [result |-> Ok(<<>>), listed |-> listed \o new_files, requests |-> sent_now]
                          ELSE LET rest == fetch_pages(Tail(pages), Some(body.obj["nextPageToken"]),
                                                       listed \o new_files)
                               IN  [rest EXCEPT !.requests = sent_now \o @]

\* FileManager::fetch_list, under the mutex: every listed file gets the API key
\* and goes into the map under its sha256_hash, a later one over an earlier one.
RECURSIVE insert_listed(_, _, _)
insert_listed(map, listed, api_key) ==
    IF listed = <<>> THEN map
    ELSE insert_listed(Insert(map, Head(listed).sha256_hash, [Head(listed) EXCEPT !.api_key = api_key]),
                       Tail(listed), api_key)

(***************************************************************************)
(* The file manager, its callers and the file server                       *)
(***************************************************************************)
Tasks == {"t1"}

MaxTime == 3

ByteStrings == {"b1", "b2"}

MimeTypes == {"image/png"}

\* FileManager.api_key, read from GEMINI_API_KEY
ApiKey == "key"

\* sha256::digest: distinct contents have distinct digests.
digest(bytes) ==
    CASE bytes = "b1" -> "9f64a7"
      [] bytes = "b2" -> "2c26b4"
      [] OTHER -> "e3b0c4"

\* The paths add_file is called with: what the file system and
\* utils::get_mime_type answer for each.
Path(exists, file_name, opens, content, mime) ==
    [exists |-> exists, file_name |-> file_name, opens |-> opens, content |-> content, mime |-> mime]

Paths ==
    {Path(FALSE, Some("gone.png"), FALSE, None, Some("image/png")),
     Path(TRUE, None, TRUE, Some("b1"), Some("image/png")),
     Path(TRUE, Some("locked.png"), FALSE, None, Some("image/png")),
     Path(TRUE, Some("dir.png"), TRUE, None, Some("image/png")),
     Path(TRUE, Some("a.bin"), TRUE, Some("b1"), None),
     Path(TRUE, Some("a.png"), TRUE, Some("b1"), Some("image/png"))}

\* utils::get_mime_type(path): Option<String>
get_mime_type(path) == path.mime

\* How long the server keeps a file: 10 minutes, or 10 and a half.
ServerTTLs == {minutes(10), minutes(10) + 1}

ServerFile(bytes, mime, time, ttl, state) ==
    [name |-> IF bytes = "b1" THEN "files/f1" ELSE "files/f2",
     uri |-> IF bytes = "b1" THEN "https://generativelanguage.googleapis.com/v1beta/files/f1"
             ELSE "https://generativelanguage.googleapis.com/v1beta/files/f2",
     displayName |-> "a.png",
     mimeType |-> mime,
     sizeBytes |-> "2",
     createTime |-> ServerTime(time),
     updateTime |-> ServerTime(time),
     expirationTime |-> ServerTime(time + ttl),
     sha256Hash |-> digest(bytes),
     state |-> state]

\* The document the server writes for a File in a given state.
StateDoc(file, state) ==
    [name |-> file.name, uri |-> file.uri, displayName |-> file.display_name,
     mimeType |-> file.mime_type, sizeBytes |-> file.size_bytes,
     createTime |-> file.create_time, updateTime |-> file.update_time,
     expirationTime |-> file.expiration_time, sha256Hash |-> file.sha256_hash,
     state |-> state]

FailedDoc(file) ==
    [name |-> file.name, uri |-> file.uri, displayName |-> file.display_name,
     mimeType |-> file.mime_type, sizeBytes |-> file.size_bytes,
     createTime |-> file.create_time, updateTime |-> file.update_time,
     expirationTime |-> file.expiration_time, sha256Hash |-> file.sha256_hash,
     state |-> "FAILED", error |-> [code |-> 3, message |-> "Unsupported image"]]

\* The document with a videoMetadata object: one with its duration, one without.
WithVideo(document, metadata) ==
    [k \in DOMAIN document \cup {"videoMetadata"} |->
        IF k = "videoMetadata" THEN metadata ELSE document[k]]

VideoMetadataDoc == [videoDuration |-> "3s"]

VideoMetadataBad == [video_duration |-> "3s"]

UploadUrl(value, visible) == [k \in {"X-Goog-Upload-URL"} |-> [value |-> value, visible |-> visible]]

StartResponses ==
    {TransportError,
     Response(TRUE, NoHeaders, None),
     Response(TRUE, UploadUrl("", FALSE), None),
     Response(TRUE, UploadUrl("https://generativelanguage.googleapis.com/upload/v1beta/files?upload_id=1", TRUE), None)}

PutResponses(bytes, mime, time) ==
    {TransportError,
     Response(TRUE, NoHeaders, None),
     Response(TRUE, NoHeaders, Some(NotJson)),
     Response(TRUE, NoHeaders, Some(JsonBody(ErrorDoc))),
     Response(TRUE, NoHeaders, Some(JsonBody([file |-> [name |-> "files/f1"]])))}
    \cup {Response(TRUE, NoHeaders, Some(JsonBody([file |-> ServerFile(bytes, mime, time, ttl, "PROCESSING")]))) :
            ttl \in ServerTTLs}
    \cup {Response(TRUE, NoHeaders, Some(JsonBody(
                [file |-> WithVideo(ServerFile(bytes, mime, time, minutes(10) + 1, "PROCESSING"), metadata)]))) :
            metadata \in {VideoMetadataDoc, VideoMetadataBad}}

PollResponses(file) ==
    {TransportError,
     Response(TRUE, NoHeaders, None),
     Response(TRUE, NoHeaders, Some(NotJson)),
     Response(TRUE, NoHeaders, Some(JsonBody(ErrorDoc))),
     Response(TRUE, NoHeaders, Some(JsonBody(FailedDoc(file))))}
    \cup {Response(TRUE, NoHeaders, Some(JsonBody(StateDoc(file, state)))) :
            state \in {"ACTIVE", "FAILED", "PROCESSING", "STATE_UNSPECIFIED"}}
    \cup {Response(TRUE, NoHeaders, Some(JsonBody(WithVideo(StateDoc(file, "ACTIVE"), metadata)))) :
            metadata \in {VideoMetadataDoc, VideoMetadataBad}}

\* A file of the server's list: uploaded at time, ACTIVE, kept 10 and a half minutes.
ListedFile(bytes, time) == ServerFile(bytes, "image/png", time, minutes(10) + 1, "ACTIVE")

\* The last page of a list.
LastPages(time) ==
    {TransportError,
     Response(TRUE, NoHeaders, None),
     Response(TRUE, NoHeaders, Some(NotJson)),
     Response(TRUE, NoHeaders, Some(JsonBody(ErrorDoc))),
     Response(TRUE, NoHeaders, Some(JsonBody([files |-> <<[name |-> "files/f1"]>>]))),
     Response(TRUE, NoHeaders, Some(JsonBody([files |-> <<ListedFile("b1", time)>>]))),
     Response(TRUE, NoHeaders, Some(JsonBody([files |-> <<ListedFile("b2", time)>>])))}

\* The lists the server answers fetch_list with: one page, or a page with a
\* nextPageToken and the page that follows it.
ListPages(time) ==
    {<<last_page>> : last_page \in LastPages(time)}
    \cup {<<Response(TRUE, NoHeaders, Some(JsonBody([files |-> <<ListedFile("b1", time)>>,
                                                      nextPageToken |-> "p2"]))),
            last_page>> : last_page \in LastPages(time)}

NoLocal ==
    [op |-> "", bytes |-> "", mime_type |-> None, hash |-> "", deleted |-> <<>>,
     location |-> None, file |-> None, timeout |-> 0]

CallLocal(op, bytes, mime, deleted) ==
    [op |-> op, bytes |-> bytes, mime_type |-> mime, hash |-> digest(bytes), deleted |-> deleted,
     location |-> None, file |-> None, timeout |-> 0]

InitFiles ==
    /\ InitSession /\ InitBuild /\ IdleModels /\ IdleDeser
    /\ files = EmptyMap
    /\ now = 0
    /\ pc = [t \in Tasks |-> "idle"]
    /\ local = [t \in Tasks |-> NoLocal]
    /\ reqs = [t \in Tasks |-> <<>>]
    /\ resps = [t \in Tasks |-> <<>>]
    /\ ret = [t \in Tasks |-> None]

otherThanFiles == <<sessionVars, buildVars, modelVars, deserVars>>

\* A call returns result to its caller.
Returns(t, result) ==
    /\ pc' = [pc EXCEPT ![t] = "done"]
    /\ ret' = [ret EXCEPT ![t] = Some(result)]

\* A call goes on at the given place.
GoesOn(t, place) ==
    /\ pc' = [pc EXCEPT ![t] = place]
    /\ UNCHANGED ret

\* One HTTP exchange of a task.
Exchange(t, sent_request, response) ==
    /\ reqs' = [reqs EXCEPT ![t] = Append(@, sent_request)]
    /\ resps' = [resps EXCEPT ![t] = Append(@, response)]

\* The part add_file_from_bytes and add_file share: the digest, get_file,
\* and the return of the cached FileData or the start of File::new.
Lookup(t, op, bytes, mime) ==
    LET cached == get_file(files, digest(bytes), now)
    IN  /\ files' = cached.files
        /\ local' = [local EXCEPT ![t] = CallLocal(op, bytes, mime, cached.deleted)]
        /\ IF IsSome(cached.found)
           THEN Returns(t, Ok(Unwrap(cached.found)))
           ELSE GoesOn(t, "start")
        /\ UNCHANGED <<now, reqs, resps, otherThanFiles>>

FileManager_add_file_from_bytes(t) ==
    /\ pc[t] = "idle"
    /\ \E bytes \in ByteStrings, mime \in MimeTypes :
          Lookup(t, "add_file_from_bytes", bytes, Some(mime))

\* add_file returns an error before the lookup.
Refuses(t, bytes, mime, message) ==
    /\ local' = [local EXCEPT ![t] = CallLocal("add_file", bytes, mime, <<>>)]
    /\ Returns(t, FileError(message))
    /\ UNCHANGED <<files, now, reqs, resps, otherThanFiles>>

\* add_file takes &mut self: no other call is in progress.
FileManager_add_file(t) ==
    /\ \A u \in Tasks : pc[u] = "idle"
    /\ \E path \in Paths :
          IF ~path.exists THEN Refuses(t, "", None, "File does not exist")
          ELSE IF path.file_name = None THEN Refuses(t, "", None, "Invalid file name")
          ELSE IF ~path.opens THEN Refuses(t, "", None, "open")
          ELSE IF path.content = None THEN Refuses(t, "", None, "read_to_end")
          ELSE IF get_mime_type(path) = None
          THEN Refuses(t, Unwrap(path.content), None, "Unsupported file type")
          ELSE Lookup(t, "add_file", Unwrap(path.content), get_mime_type(path))

\* File::upload: the start request and the upload URL of its response.
File_upload_start(t) ==
    /\ pc[t] = "start"
    /\ \E response \in StartResponses :
          /\ Exchange(t, StartRequest, response)
          /\ IF location(response).ok
             THEN /\ local' = [local EXCEPT ![t].location = Some(location(response).val)]
                  /\ GoesOn(t, "put")
             ELSE /\ Returns(t, location(response))
                  /\ UNCHANGED local
    /\ UNCHANGED <<files, now, otherThanFiles>>

\* File::upload: the PUT of the bytes and the File of its response.
File_upload_put(t) ==
    /\ pc[t] = "put"
    /\ \E response \in PutResponses(local[t].bytes, Unwrap(local[t].mime_type), now) :
          /\ Exchange(t, PutRequest(Unwrap(local[t].location), local[t].bytes), response)
          /\ IF uploaded_file(response).ok
             THEN /\ local' = [local EXCEPT ![t].file = Some(uploaded_file(response).val),
                                            ![t].timeout = 0]
                  /\ GoesOn(t, "poll")
             ELSE /\ Returns(t, uploaded_file(response))
                  /\ UNCHANGED local
    /\ UNCHANGED <<files, now, otherThanFiles>>

\* File::upload: one turn of the polling loop; on ACTIVE the file gets the API key.
File_upload_poll(t) ==
    /\ pc[t] = "poll"
    /\ \E response \in PollResponses(Unwrap(local[t].file)) :
          LET turn == poll(local[t].timeout, response)
          IN  /\ Exchange(t, StateRequest(Unwrap(local[t].file).name), response)
              /\ CASE turn.next = "return" ->
                        /\ Returns(t, turn.result)
                        /\ UNCHANGED local
                   [] turn.next = "break" ->
                        /\ local' = [local EXCEPT ![t].file = Some([Unwrap(@) EXCEPT !.api_key = ApiKey])]
                        /\ GoesOn(t, "insert")
                   [] turn.next = "continue" ->
                        /\ local' = [local EXCEPT ![t].timeout = turn.timeout]
                        /\ GoesOn(t, "poll")
    /\ UNCHANGED <<files, now, otherThanFiles>>

\* add_file_from_bytes and add_file after File::new: the insertion under the mutex.
FileManager_insert(t) ==
    /\ pc[t] = "insert"
    /\ files' = Insert(files, local[t].hash, Unwrap(local[t].file))
    /\ Returns(t, Ok(FileData(Unwrap(local[t].file).mime_type, Unwrap(local[t].file).uri)))
    /\ UNCHANGED <<now, local, reqs, resps, otherThanFiles>>

\* FileManager::get_file (&self) called by itself: an entry near its expiry
\* is removed and deleted on the server, and nothing is uploaded.
FileManager_get_file(t) ==
    /\ pc[t] = "idle"
    /\ \E bytes \in ByteStrings :
          LET cached == get_file(files, digest(bytes), now)
          IN  /\ files' = cached.files
              /\ local' = [local EXCEPT ![t] = [NoLocal EXCEPT !.op = "get_file",
                                                              !.hash = digest(bytes),
                                                              !.deleted = cached.deleted]]
              /\ Returns(t, found_or_none(cached.found))
    /\ UNCHANGED <<now, reqs, resps, otherThanFiles>>

\* FileManager::fetch_list (&mut self): the pages are read, then every listed
\* file is inserted; on an error nothing is.
FileManager_fetch_list(t) ==
    /\ \A u \in DOMAIN pc : pc[u] = "idle"
    /\ \E pages \in ListPages(now) :
          LET run == fetch_pages(pages, None, <<>>)
          IN  /\ files' = IF run.result.ok THEN insert_listed(files, run.listed, ApiKey) ELSE files
              /\ local' = [local EXCEPT ![t] = [NoLocal EXCEPT !.op = "fetch_list"]]
              /\ reqs' = [reqs EXCEPT ![t] = run.requests]
              /\ resps' = [resps EXCEPT ![t] = pages]
              /\ Returns(t, run.result)
    /\ UNCHANGED <<now, otherThanFiles>>

\* The caller takes the result; the task is free for the next call.
TaskReturns(t) ==
    /\ pc[t] = "done"
    /\ pc' = [pc EXCEPT ![t] = "idle"]
    /\ local' = [local EXCEPT ![t] = NoLocal]
    /\ reqs' = [reqs EXCEPT ![t] = <<>>]
    /\ resps' = [resps EXCEPT ![t] = <<>>]
    /\ ret' = [ret EXCEPT ![t] = None]
    /\ UNCHANGED <<files, now, otherThanFiles>>

\* FileManager::delete_file (&mut self)
FileManager_delete_file ==
    /\ \A u \in Tasks : pc[u] = "idle"
    /\ \E hash \in DOMAIN files : files' = Remove(files, hash)
    /\ UNCHANGED <<now, pc, local, reqs, resps, ret, otherThanFiles>>

\* FileManager::clear_files (&mut self)
FileManager_clear_files ==
    /\ \A u \in Tasks : pc[u] = "idle"
    /\ DOMAIN files # {}
    /\ files' = EmptyMap
    /\ UNCHANGED <<now, pc, local, reqs, resps, ret, otherThanFiles>>

\* Time passes.
Tick ==
    /\ now < MaxTime
    /\ now' = now + 1
    /\ UNCHANGED <<files, pc, local, reqs, resps, ret, otherThanFiles>>

NextFiles ==
    \/ \E t \in Tasks : FileManager_add_file_from_bytes(t)
    \/ \E t \in Tasks : FileManager_add_file(t)
    \/ \E t \in Tasks : File_upload_start(t)
    \/ \E t \in Tasks : File_upload_put(t)
    \/ \E t \in Tasks : File_upload_poll(t)
    \/ \E t \in Tasks : FileManager_insert(t)
    \/ \E t \in Tasks : FileManager_get_file(t)
    \/ \E t \in Tasks : FileManager_fetch_list(t)
    \/ \E t \in Tasks : TaskReturns(t)
    \/ FileManager_delete_file
    \/ FileManager_clear_files
    \/ Tick

SpecFiles == InitFiles /\ [][NextFiles]_vars

\* The instant a server timestamp stands for.
Instants == 0..(MaxTime + minutes(10) + 1)

InstantOf(timestamp) == CHOOSE t \in Instants : ServerTime(t) = timestamp

\* The cache holds an entry for the hash that expires more than 10 minutes from time.
NotNearExpiry(map, hash, time) ==
    /\ hash \in DOMAIN map
    /\ InstantOf(map[hash].expiration_time) > time + minutes(10)

\* The step is a call of task t that returns the FileData of entry without a request.
ServedFromCache(t, entry) ==
    /\ pc'[t] = "done"
    /\ IsSome(ret'[t])
    /\ Unwrap(ret'[t]).ok
    /\ Unwrap(ret'[t]).val.file_uri = entry.uri
    /\ Unwrap(ret'[t]).val.mime_type = entry.mime_type
    /\ reqs'[t] = <<>>
    /\ files' = files

\* C5 as stated: add_file_from_bytes and add_file, called with bytes whose digest
\* has a cache entry more than 10 minutes from expiry, return the entry's
\* FileData and make no upload request.
C5_CachedBytesAreServed ==
    [][\A t \in Tasks :
          (/\ pc[t] = "idle" /\ pc'[t] # "idle"
           /\ local'[t].bytes \in ByteStrings
           /\ NotNearExpiry(files, digest(local'[t].bytes), now))
          => ServedFromCache(t, files[digest(local'[t].bytes)])]_vars

\* C5, amended: the same for add_file_from_bytes, and for add_file when
\* a MIME type is found for the path; add_file on a path without one returns
\* FileError "Unsupported file type" whatever the cache holds, with no request.
C5_CachedBytesAreServedOnceTyped ==
    [][\A t \in Tasks :
          (/\ pc[t] = "idle" /\ pc'[t] # "idle"
           /\ local'[t].bytes \in ByteStrings
           /\ NotNearExpiry(files, digest(local'[t].bytes), now))
          => IF local'[t].op = "add_file" /\ local'[t].mime_type = None
             THEN /\ pc'[t] = "done"
                  /\ ret'[t] = Some(Err("FileError", "Unsupported file type"))
                  /\ reqs'[t] = <<>>
                  /\ files' = files
             ELSE ServedFromCache(t, files[digest(local'[t].bytes)])]_vars

\* add_file has returned the cached FileData of an entry that expires half a
\* minute after the 10 minute mark, and no request was made.
C5_Witness ==
    \E t \in Tasks :
        /\ pc[t] = "done"
        /\ local[t].op = "add_file"
        /\ NotNearExpiry(files, local[t].hash, now)
        /\ InstantOf(files[local[t].hash].expiration_time) = now + minutes(10) + 1
        /\ ret[t] = Some(Ok(FileData(files[local[t].hash].mime_type, files[local[t].hash].uri)))
        /\ reqs[t] = <<>>

\* What makes a step of the upload fail, read off the response.
StartFailed(r) ==
    \/ ~r.sent
    \/ "X-Goog-Upload-URL" \notin DOMAIN r.headers
    \/ ~r.headers["X-Goog-Upload-URL"].visible

CompleteFileDoc(o) ==
    /\ {"name", "uri", "displayName", "mimeType", "sizeBytes", "createTime", "updateTime",
        "expirationTime", "sha256Hash", "state"} \subseteq DOMAIN o
    /\ "videoMetadata" \in DOMAIN o => "videoDuration" \in DOMAIN o["videoMetadata"]

PutFailed(r) ==
    \/ ~r.sent
    \/ r.text = None
    \/ ~r.text[1].json
    \/ "file" \notin DOMAIN r.text[1].obj
    \/ ~CompleteFileDoc(r.text[1].obj["file"])

PollFailed(r) ==
    \/ ~r.sent
    \/ r.text = None
    \/ ~r.text[1].json
    \/ ~CompleteFileDoc(r.text[1].obj)
    \/ r.text[1].obj["state"] \notin {"ACTIVE", "PROCESSING"}

StepFailed(i, r) ==
    CASE i = 1 -> StartFailed(r)
      [] i = 2 -> PutFailed(r)
      [] OTHER -> PollFailed(r)

\* The call of task t is one that uploads: File::upload runs inside it.
Uploading(t) == local[t].op \in {"add_file_from_bytes", "add_file"}

\* C6: the requests of an upload are one start request, then one
\* "upload, finalize" PUT of the bytes to the URL of the start response's
\* X-Goog-Upload-URL header, then state requests; a step that fails is the last
\* one, and the call returns FileError.
C6_UploadOrder ==
    \A t \in Tasks :
        LET q == reqs[t]
            r == resps[t]
        IN  Uploading(t) =>
            /\ Len(r) = Len(q)
            /\ Len(q) >= 1 =>
                  /\ q[1].method = "POST" /\ q[1].command = "start"
                  /\ pc[t] \notin {"idle", "start"}
            /\ Len(q) >= 2 =>
                  /\ q[2].method = "PUT" /\ q[2].command = "upload, finalize"
                  /\ q[2].body = local[t].bytes
                  /\ q[2].url = <<r[1].headers["X-Goog-Upload-URL"].value>>
            /\ \A i \in 3..Len(q) :
                  /\ q[i].method = "GET"
                  /\ q[i].url[2] = r[2].text[1].obj["file"]["name"]
            /\ \A i \in 1..Len(q) :
                  StepFailed(i, r[i]) =>
                      /\ Len(q) = i
                      /\ pc[t] = "done"
                      /\ IsSome(ret[t]) /\ ~Unwrap(ret[t]).ok /\ Unwrap(ret[t]).err = "FileError"
            /\ pc[t] = "put" => Len(q) = 1
            /\ pc[t] \in {"poll", "insert"} => Len(q) >= 2

\* An upload whose start response had no X-Goog-Upload-URL header has returned
\* FileError after the start request alone.
C6_Witness ==
    \E t \in Tasks :
        /\ pc[t] = "done"
        /\ Len(reqs[t]) = 1
        /\ resps[t][1].sent
        /\ "X-Goog-Upload-URL" \notin DOMAIN resps[t][1].headers
        /\ ret[t] = Some(Err("FileError", "X-Goog-Upload-URL header not found"))

\* An upload has gone through the three steps and its file is cached.
C6_WitnessComplete ==
    \E t \in Tasks :
        /\ pc[t] = "done"
        /\ Len(reqs[t]) = 4
        /\ IsSome(ret[t]) /\ Unwrap(ret[t]).ok
        /\ local[t].hash \in DOMAIN files

(***************************************************************************)
(* The polling loop of File::upload                                        *)
(***************************************************************************)
\* Every state request is answered, and the pause after the answer ends.
SpecFilesLive == SpecFiles /\ \A t \in Tasks : WF_vars(File_upload_poll(t))

\* The state requests of the upload of task t.
StateRequests(t) ==
    IF Uploading(t) THEN SelectSeq(reqs[t], LAMBDA q : q.method = "GET") ELSE <<>>

\* The answer is a complete File document.
IsFileAnswer(r) ==
    /\ r.sent /\ r.text # None
    /\ r.text[1].json
    /\ CompleteFileDoc(r.text[1].obj)

\* C17: the polling loop ends: an upload makes at most 4 state requests, and
\* when the 4th answer still says PROCESSING it returns FileError
\* "File processing timeout".
C17_PollingTerminates ==
    /\ [](\A t \in Tasks :
            /\ Len(StateRequests(t)) <= 4
            /\ (/\ Len(StateRequests(t)) = 4
                /\ IsFileAnswer(resps[t][Len(resps[t])])
                /\ resps[t][Len(resps[t])].text[1].obj["state"] = "PROCESSING") =>
                  /\ pc[t] = "done"
                  /\ ret[t] = Some(Err("FileError", "File processing timeout")))
    /\ \A t \in Tasks : (pc[t] = "poll") ~> (pc[t] # "poll")

\* Four answers of PROCESSING in a row.
C17_Witness ==
    \E t \in Tasks :
        /\ pc[t] = "done"
        /\ ret[t] = Some(Err("FileError", "File processing timeout"))
        /\ Len(StateRequests(t)) = 4
        /\ \A i \in 3..6 : IsFileAnswer(resps[t][i]) /\ resps[t][i].text[1].obj["state"] = "PROCESSING"

\* C18: File::upload returns Ok only after a state answer of ACTIVE; an answer
\* of FAILED ends it with the server's error message, or "File processing
\* failed" when there is none; an answer of a state that is none of ACTIVE,
\* FAILED and PROCESSING ends it with "File processing unknown state", and no
\* state request follows.
C18_PollOutcomes ==
    \A t \in Tasks :
        LET q == reqs[t]
            r == resps[t]
        IN  Uploading(t) =>
            /\ (pc[t] = "insert" \/ (pc[t] = "done" /\ q # <<>> /\ IsSome(ret[t]) /\ Unwrap(ret[t]).ok)) =>
                  /\ Len(q) >= 3
                  /\ IsFileAnswer(r[Len(r)])
                  /\ r[Len(r)].text[1].obj["state"] = "ACTIVE"
            /\ \A i \in 3..Len(q) :
                  IsFileAnswer(r[i]) =>
                      LET o == r[i].text[1].obj
                      IN  /\ o["state"] = "FAILED" =>
                                /\ i = Len(q) /\ pc[t] = "done"
                                /\ ret[t] = Some(Err("FileError",
                                                     IF "error" \in DOMAIN o THEN o["error"]["message"]
                                                     ELSE "File processing failed"))
                          /\ o["state"] \notin {"ACTIVE", "FAILED", "PROCESSING"} =>
                                /\ i = Len(q) /\ pc[t] = "done"
                                /\ ret[t] = Some(Err("FileError", "File processing unknown state"))

\* An answer of a state that is not known, after one of PROCESSING.
C18_Witness ==
    \E t \in Tasks :
        /\ pc[t] = "done"
        /\ ret[t] = Some(Err("FileError", "File processing unknown state"))
        /\ Len(reqs[t]) = 4
        /\ resps[t][3].text[1].obj["state"] = "PROCESSING"
        /\ resps[t][4].text[1].obj["state"] = "STATE_UNSPECIFIED"

\* An answer of FAILED with the server's message.
C18_WitnessFailed ==
    \E t \in Tasks :
        /\ pc[t] = "done"
        /\ ret[t] = Some(Err("FileError", "Unsupported image"))

(***************************************************************************)
(* Concurrent add_file_from_bytes calls on one FileManager                 *)
(***************************************************************************)
\* Two callers share the FileManager (&self). get_file takes the mutex and
\* gives it back when it returns; the insertion takes it again after File::new.
ConcTasks == {"t1", "t2"}

InitConc ==
    /\ InitSession /\ InitBuild /\ IdleModels /\ IdleDeser
    /\ files = EmptyMap
    /\ now = 0
    /\ pc = [t \in ConcTasks |-> "idle"]
    /\ local = [t \in ConcTasks |-> NoLocal]
    /\ reqs = [t \in ConcTasks |-> <<>>]
    /\ resps = [t \in ConcTasks |-> <<>>]
    /\ ret = [t \in ConcTasks |-> None]

\* The server accepts every upload: no request of File::upload fails, the
\* file turns ACTIVE before the last poll, and it expires in more than 10 minutes.
ServerAccepts(t) ==
    /\ pc[t] \in {"start", "put", "poll"} => pc'[t] # "done"
    /\ (pc[t] = "put" /\ pc'[t] = "poll") =>
          Unwrap(local'[t].file).expiration_time = ServerTime(now + minutes(10) + 1)

\* The steps of File::upload against such a server.
Accepted_upload_start(t) == File_upload_start(t) /\ ServerAccepts(t)

Accepted_upload_put(t) == File_upload_put(t) /\ ServerAccepts(t)

Accepted_upload_poll(t) == File_upload_poll(t) /\ ServerAccepts(t)

NextConc ==
    \/ \E t \in ConcTasks : FileManager_add_file_from_bytes(t)
    \/ \E t \in ConcTasks : Accepted_upload_start(t)
    \/ \E t \in ConcTasks : Accepted_upload_put(t)
    \/ \E t \in ConcTasks : Accepted_upload_poll(t)
    \/ \E t \in ConcTasks : FileManager_insert(t)
    \/ \E t \in ConcTasks : FileManager_get_file(t)
    \/ \E t \in ConcTasks : TaskReturns(t)

SpecConc == InitConc /\ [][NextConc]_vars

\* The task has sent the bytes of its call to the server.
Uploaded(t) == \E i \in 1..Len(reqs[t]) : reqs[t][i].method = "PUT"

\* C19: of the concurrent add_file_from_bytes calls with identical bytes, at
\* most one uploads the bytes.
C19_OneUploadPerHash ==
    \A t, u \in ConcTasks :
        (t # u /\ local[t].hash = local[u].hash) => ~(Uploaded(t) /\ Uploaded(u))

====
